---- MODULE Spec2Model ----
(***************************************************************************)
(* Model of the autogas orchestrator: the active-issue registry            *)
(* (StateManager), the trigger / closure / review handlers and the health  *)
(* loop of the Orchestrator, and the incremental poller (GitHubPoller).    *)
(*                                                                         *)
(* Time is counted in milliseconds, as the code does, and advances in      *)
(* steps of TickMs.  JavaScript `undefined` is modelled by the string      *)
(* "undefined" for strings, by 0 for issue / PR / container numbers and    *)
(* by -1 for an absent timestamp.                                          *)
(***************************************************************************)
EXTENDS Integers, Sequences, FiniteSets, Bags, TLC

(***************************************************************************)
(* Bounds of the model.                                                    *)
(***************************************************************************)
MaxConfigConcurrent == 2   \* containers.maxConcurrent is drawn from 1..this
MaxHandlers == 2           \* trigger handlers in flight at once
MaxContainers == 2         \* containers docker creates in one run
MaxTicks == 3              \* clock ticks of TickMs
MaxInFlight == 2           \* pollAll invocations running at once
MaxPolls == 2              \* pollAll invocations in one run
MaxComments == 3           \* comments posted on the issues of acme/app
MaxReviews == 2            \* reviews submitted on the agent's pull request
MaxSweeps == 2             \* health sweeps in flight at once
MaxNotices == 2            \* crash notifications counted per issue
MaxAddressed == 2          \* feedback iterations counted per review

TickMs == 5 * 60 * 1000

\* GitHub's hourly request limit for an authenticated client.
CoreLimit == 5000

\* The prefix of the branches the orchestrator names.
AgentBranchPrefix ==
  << "a", "i", "-", "a", "g", "e", "n", "t", "-", "i", "s", "s", "u", "e", "-" >>

(***************************************************************************)
(* Configuration and the outside world's names.                            *)
(***************************************************************************)
Undefined == "undefined"
NoPR == 0
NoContainer == 0
NoHeartbeat == 0 - 1
NoError == ""

TrackedRepos == { <<"acme", "app">>, <<"acme", "lib">> }

\* The issues of the tracked repositories that triggers arrive for.
IssueKeys == { <<"acme", "app", 1>>, <<"acme", "app", 2>>, <<"acme", "lib", 1>> }

\* What `const { owner, repo, number } = issue` yields when issue is a string.
UndefinedKey == << Undefined, Undefined, 0 >>

\* The value of call before any event or call.
NoCall ==
  [ op |-> "none", key |-> UndefinedKey, containerId |-> NoContainer, status |-> "",
    forwarded |-> FALSE, login |-> << >>, body |-> << >> ]

AllStatuses ==
  { "starting", "cloning", "analyzing", "developing", "testing", "pr_created",
    "awaiting_review", "iterating", "done", "error", "aborted" }

ContainerIds == 1..MaxContainers

VARIABLES
  usePolling,     \* Orchestrator.usePolling
  maxConcurrent,  \* StateManager.maxConcurrent
  activeIssues,   \* StateManager.activeIssues : key -> ActiveIssue
  now,            \* Date.now()
  handlers,       \* in-flight handleIssueTriggered invocations, by slot
  docker,         \* container id -> state reported by docker
  dockerKey,      \* container id -> the issue key in its labels / environment
  prOf,           \* container id -> number of the PR its agent created
  sweepTodo,      \* stale issues the running health sweep still has to check
  call,           \* the last PR event handled, or the last StateManager call made
  notified,       \* issue key -> the crash notifications the health loop posted for it
  timers,         \* the intervals that are set: healthCheckInterval, cleanupInterval, the poller's
  stopState,      \* Orchestrator.stop(): where it is and the removals it asked for
  agent,          \* the workload of one container: entrypoint.sh and the Agent it runs
  issueLog        \* GitHub, per polled issue: updated_at, and the body triggers and replies so far

\* GitHubPoller and the part of GitHub it reads.
VARIABLES
  pollState,      \* GitHubPoller.state : PollState, its Maps held as references
  heap,           \* the Map<number, number> objects lastCommentCheck refers to
  rateLimitRemaining, \* GitHubPoller.rateLimitRemaining
  logged,         \* the line the poller's last stretch logged, "none" if none
  cycles,         \* the pollAll invocations, each between two awaits
  comments,       \* GitHub: comment id -> "future" | "posted" | "deleted"
  reviews,        \* GitHub: review id -> "future" | "submitted"
  emitted,        \* the comments an issue-trigger event has been emitted for
  pulls,          \* GitHub: pull request number -> "open" | "closed"
  closureDue      \* the tracked pull requests a listing was answered for after they closed

pollVars ==
  << pollState, heap, rateLimitRemaining, logged, cycles, comments, reviews, emitted,
     pulls, closureDue >>

\* The timers of start(), what stop() does with them, and the notifications.
loopVars == << notified, timers, stopState, agent, issueLog >>

vars ==
  << usePolling, maxConcurrent, activeIssues, now, handlers, docker, dockerKey,
     prOf, sweepTodo, call, loopVars, pollVars >>

(***************************************************************************)
(* StateManager                                                            *)
(***************************************************************************)
\* `${owner}/${repo}#${issueNumber}`: "/" and "#" occur in no owner or
\* repository name, so the string is one-to-one with the triple.
getIssueKey(owner, repo, issueNumber) == << owner, repo, issueNumber >>

canStartNew(reg, maxC) == Cardinality(DOMAIN reg) < maxC

getQueuePosition_NoPlusOne(reg, maxC) == Cardinality(DOMAIN reg) - maxC

getQueuePosition(reg, maxC) == Cardinality(DOMAIN reg) - maxC + 1

\* Map.set: inserts or overwrites.
MapSet(reg, key, value) ==
  [ k \in (DOMAIN reg) \cup {key} |-> IF k = key THEN value ELSE reg[k] ]

MapDelete(reg, key) == [ k \in (DOMAIN reg) \ {key} |-> reg[k] ]

registerIssue(reg, issue) ==
  MapSet(reg, getIssueKey(issue.repoOwner, issue.repoName, issue.issueNumber), issue)

isIssueActive(reg, owner, repo, issueNumber) ==
  getIssueKey(owner, repo, issueNumber) \in DOMAIN reg

\* The keys of the units whose containerId is the given one.
getIssueByContainerId(reg, containerId) ==
  { k \in DOMAIN reg : reg[k].containerId = containerId }

updateIssueStatus_NoCause(reg, owner, repo, issueNumber, status, error, t) ==
  LET key == getIssueKey(owner, repo, issueNumber)
  IN IF key \in DOMAIN reg
       THEN [ reg EXCEPT ![key] = [ @ EXCEPT !.status = status, !.lastHeartbeat = t ] ]
       ELSE reg

updateIssueStatus_Upsert(reg, owner, repo, issueNumber, status, error, t) ==
  LET key == getIssueKey(owner, repo, issueNumber)
      old == IF key \in DOMAIN reg
               THEN reg[key]
               ELSE [ repoOwner |-> owner, repoName |-> repo, issueNumber |-> issueNumber,
                      containerId |-> NoContainer, status |-> status, prNumber |-> NoPR,
                      startedAt |-> t, lastHeartbeat |-> NoHeartbeat, error |-> NoError ]
  IN MapSet(reg, key,
            [ old EXCEPT !.status = status, !.lastHeartbeat = t,
                         !.error = IF error # NoError THEN error ELSE @ ])

updateIssueStatus(reg, owner, repo, issueNumber, status, error, t) ==
  LET key == getIssueKey(owner, repo, issueNumber)
  IN IF key \in DOMAIN reg
       THEN [ reg EXCEPT ![key] =
                [ @ EXCEPT !.status = status, !.lastHeartbeat = t,
                           !.error = IF error # NoError THEN error ELSE @ ] ]
       ELSE reg

\* Object.assign(issue, updates) for an update of the status field.
updateIssueByContainerId(reg, containerId, status, t) ==
  LET found == getIssueByContainerId(reg, containerId)
  IN IF found # {}
       THEN LET key == CHOOSE k \in found : TRUE
            IN [ reg EXCEPT ![key] = [ @ EXCEPT !.status = status, !.lastHeartbeat = t ] ]
       ELSE reg

setPRNumber(reg, owner, repo, issueNumber, prNumber) ==
  LET key == getIssueKey(owner, repo, issueNumber)
  IN IF key \in DOMAIN reg
       THEN [ reg EXCEPT ![key] = [ @ EXCEPT !.prNumber = prNumber, !.status = "pr_created" ] ]
       ELSE reg

removeIssue(reg, owner, repo, issueNumber) ==
  MapDelete(reg, getIssueKey(owner, repo, issueNumber))

getStaleIssues_AtLeast(reg, t) ==
  { k \in DOMAIN reg :
      IF reg[k].lastHeartbeat = NoHeartbeat
        THEN (t - reg[k].startedAt) >= 10 * 60 * 1000
        ELSE (t - reg[k].lastHeartbeat) >= 5 * 60 * 1000 }

\* Lines 656-665, called at time t with the default timeout of 5 minutes
\* (index.ts:264 passes none).
getStaleIssues(reg, t) ==
  { k \in DOMAIN reg :
      IF reg[k].lastHeartbeat = NoHeartbeat
        THEN (t - reg[k].startedAt) > 10 * 60 * 1000
        ELSE (t - reg[k].lastHeartbeat) > 5 * 60 * 1000 }


(***************************************************************************)
(* ContainerManager and the docker daemon                                  *)
(***************************************************************************)
EmptyMap == [ k \in {} |-> 0 ]

\* The lowest container id docker has not handed out yet (0: none left).
FreshContainer ==
  IF \E c \in ContainerIds : docker[c] = "absent"
    THEN CHOOSE c \in ContainerIds :
           docker[c] = "absent" /\ \A d \in ContainerIds : d < c => docker[d] # "absent"
    ELSE NoContainer

\* startAgentContainer: the results it can have for the issue.  "throws" leaves
\* docker unchanged, "created" is a container whose start() failed (the call
\* throws as well), "running" returns the new container's id.
\* generateContainerName reads issue.repoOwner.toLowerCase(): a TypeError when
\* the owner is undefined.
startAgentContainerOutcomes(repoOwner) ==
  IF repoOwner = Undefined \/ FreshContainer = NoContainer
    THEN { "throws" }
    ELSE { "throws", "created", "running" }

\* getContainerStatus: info.State.Status, or 'unknown' when inspect fails
\* (always so for a container docker no longer has).
getContainerStatusOutcomes(containerId) ==
  IF containerId \in ContainerIds /\ docker[containerId] \notin { "absent", "removed" }
    THEN { docker[containerId], "unknown" }
    ELSE { "unknown" }

(***************************************************************************)
(* Orchestrator.handleIssueTriggered, one action per stretch between two   *)
(* awaits.                                                                 *)
(***************************************************************************)
\* One invocation of handleIssueTriggered between two awaits: where it is
\* (pc), the issue the event is about, the destructured key, and its locals.
NewHandler(pc, issue, key) ==
  [ pc |-> pc, event |-> << issue.owner, issue.repo, issue.number >>, key |-> key,
    startedAt |-> 0, queuePos |-> 0, containerId |-> NoContainer, cause |-> "" ]

Running(h) == BagIn(h, handlers)

\* The invocation h moves on as g / returns.
Becomes(h, g) == (handlers (-) SetToBag({h})) (+) SetToBag({g})
Returns(h) == handlers (-) SetToBag({h})

\* The first argument the two event sources pass to onIssueTriggered: the
\* webhook server passes an issue object, the poller passes the owner string.
TriggerArguments ==
  IF usePolling
    THEN { [ kind |-> "string", owner |-> k[1], repo |-> k[2], number |-> k[3] ] : k \in IssueKeys }
    ELSE { [ kind |-> "object", owner |-> k[1], repo |-> k[2], number |-> k[3] ] : k \in IssueKeys }

\* const { owner, repo, number } = issue
Destructure(issue) ==
  IF issue.kind = "object"
    THEN << issue.owner, issue.repo, issue.number >>
    ELSE UndefinedKey

\* Lines 104-145: the checks, up to the first await, and the invocation as
\* it is suspended there.
Admitted(issue) ==
  LET key == Destructure(issue)
  IN IF isIssueActive(activeIssues, key[1], key[2], key[3])
       THEN NewHandler("replyActive", issue, key)
     ELSE IF ~canStartNew(activeIssues, maxConcurrent)
       THEN [ NewHandler("replyFull", issue, key) EXCEPT
                !.queuePos = getQueuePosition(activeIssues, maxConcurrent) ]
     ELSE [ NewHandler("start", issue, key) EXCEPT !.startedAt = now ]

\* A trigger event arrives at onIssueTriggered.
handleIssueTriggered(issue) ==
     /\ BagCardinality(handlers) < MaxHandlers
     /\ handlers' = handlers (+) SetToBag({ Admitted(issue) })
     /\ UNCHANGED pollVars
     /\ UNCHANGED loopVars
     /\ UNCHANGED << usePolling, maxConcurrent, activeIssues, now, docker, dockerKey,
                     prOf, sweepTodo, call >>

\* Lines 110-116 and 122-129: the reply to a rejected trigger is posted (or
\* postIssueComment throws) and the handler ends.
TriggerRejected(h) ==
  /\ Running(h)
  /\ h.pc \in { "replyActive", "replyFull" }
  /\ handlers' = Returns(h)
  /\ UNCHANGED pollVars
  /\ UNCHANGED loopVars
  /\ UNCHANGED << usePolling, maxConcurrent, activeIssues, now, docker, dockerKey,
                  prOf, sweepTodo, call >>

\* Lines 147-163: addReaction (never throws), the initial comment and
\* await startAgentContainer(activeIssue).  For an undefined issue
\* postIssueComment throws and the container is not started.
TriggerStartsContainer(h) ==
  /\ Running(h)
  /\ h.pc = "start"
  /\ IF h.key = UndefinedKey
       THEN /\ handlers' = Becomes(h, [ h EXCEPT !.pc = "reportFailure",
                                                 !.cause = "Error: Failed to post comment" ])
            /\ UNCHANGED << docker, dockerKey >>
       ELSE \E outcome \in startAgentContainerOutcomes(h.key[1]) :
              IF outcome = "throws"
                THEN /\ handlers' = Becomes(h, [ h EXCEPT !.pc = "reportFailure",
                                                          !.cause = "Error: Failed to start container" ])
                     /\ UNCHANGED << docker, dockerKey >>
                ELSE /\ docker' = [ docker EXCEPT ![FreshContainer] = outcome ]
                     /\ dockerKey' = [ dockerKey EXCEPT ![FreshContainer] = h.key ]
                     /\ handlers' =
                          Becomes(h, IF outcome = "running"
                                       THEN [ h EXCEPT !.pc = "register", !.containerId = FreshContainer ]
                                       ELSE [ h EXCEPT !.pc = "reportFailure",
                                                       !.cause = "Error: Failed to start container" ])
  /\ UNCHANGED pollVars
  /\ UNCHANGED loopVars
  /\ UNCHANGED << usePolling, maxConcurrent, activeIssues, now, prOf, sweepTodo, call >>

\* Lines 165-170: the continuation after the container has started.
TriggerRegisters(h) ==
  /\ Running(h)
  /\ h.pc = "register"
  /\ activeIssues' =
       registerIssue(activeIssues,
         [ repoOwner |-> h.key[1], repoName |-> h.key[2], issueNumber |-> h.key[3],
           containerId |-> h.containerId, status |-> "starting", prNumber |-> NoPR,
           startedAt |-> h.startedAt, lastHeartbeat |-> NoHeartbeat, error |-> NoError ])
  /\ handlers' = Returns(h)
  /\ UNCHANGED pollVars
  /\ UNCHANGED loopVars
  /\ UNCHANGED << usePolling, maxConcurrent, now, docker, dockerKey, prOf, sweepTodo, call >>

TriggerFailureReported_Silent(h) ==
  /\ Running(h)
  /\ h.pc = "reportFailure"
  /\ handlers' = Returns(h)
  /\ UNCHANGED pollVars
  /\ UNCHANGED loopVars
  /\ UNCHANGED << usePolling, maxConcurrent, activeIssues, now, docker, dockerKey,
                  prOf, sweepTodo, call >>

\* Lines 171-180: the catch block calls postIssueComment with the error for
\* the issue it destructured, and the handler ends.
TriggerFailureReported(h) ==
  /\ Running(h)
  /\ h.pc = "reportFailure"
  /\ handlers' = Returns(h)
  /\ call' = [ NoCall EXCEPT !.op = "postIssueComment", !.key = h.key,
                             !.status = "Failed to start agent: " \o h.cause ]
  /\ UNCHANGED pollVars
  /\ UNCHANGED loopVars
  /\ UNCHANGED << usePolling, maxConcurrent, activeIssues, now, docker, dockerKey,
                  prOf, sweepTodo >>

(***************************************************************************)
(* The workload in a container (Agent.run) and the docker daemon           *)
(***************************************************************************)
\* The number GitHub gives the next pull request of a repository.
NextPRNumber(owner, repo) ==
  10 + 1 + Cardinality({ c \in ContainerIds :
                           /\ prOf[c] # NoPR
                           /\ dockerKey[c][1] = owner /\ dockerKey[c][2] = repo })

\* Agent.createPR: the agent of a running container opens its pull request.
\* Its status reports go to POST /api/status, which only logs them.
AgentCreatesPR(c) ==
  /\ docker[c] = "running"
  /\ prOf[c] = NoPR
  /\ prOf' = [ prOf EXCEPT ![c] = NextPRNumber(dockerKey[c][1], dockerKey[c][2]) ]
  /\ UNCHANGED pollVars
  /\ UNCHANGED loopVars
  /\ UNCHANGED << usePolling, maxConcurrent, activeIssues, now, handlers, docker,
                  dockerKey, sweepTodo, call >>

\* The statuses Agent.run and monitorPRAndIterate report: up to the creation
\* of the pull request, after it, and 'error' from the catch block.
reportStatusValues(c) ==
  IF prOf[c] = NoPR
    THEN { "analyzing", "developing", "testing", "pr_created", "error" }
    ELSE { "awaiting_review", "iterating", "done", "error" }

\* Agent.reportStatus posts to the webhook server's /api/status, whose
\* handler logs the update and answers { received: true }.
PostApiStatus(c, status) ==
  /\ ~usePolling
  /\ docker[c] = "running"
  /\ status \in reportStatusValues(c)
  /\ call' = [ NoCall EXCEPT !.op = "POST /api/status", !.containerId = c, !.status = status ]
  /\ UNCHANGED pollVars
  /\ UNCHANGED loopVars
  /\ UNCHANGED << usePolling, maxConcurrent, activeIssues, now, handlers, docker,
                  dockerKey, prOf, sweepTodo >>

\* The agent process ends (process.exit) or the container dies.
ContainerStops(c) ==
  /\ docker[c] = "running"
  /\ \E state \in { "exited", "dead" } : docker' = [ docker EXCEPT ![c] = state ]
  /\ UNCHANGED pollVars
  /\ UNCHANGED loopVars
  /\ UNCHANGED << usePolling, maxConcurrent, activeIssues, now, handlers, dockerKey,
                  prOf, sweepTodo, call >>

(***************************************************************************)
(* Orchestrator.handlePRClosed and handlePRReview                          *)
(***************************************************************************)
\* activeIssues.find(i => i.prNumber === prNumber): the units the search can
\* return.  It returns the first one in the Map's insertion order, which the
\* model leaves open.
FindByPRNumber(reg, prNumber) == { k \in DOMAIN reg : reg[k].prNumber = prNumber }

\* The pull requests on GitHub that agents of this run created.
AgentPRs ==
  { << dockerKey[c][1], dockerKey[c][2], prOf[c] >> : c \in { d \in ContainerIds : prOf[d] # NoPR } }

\* Lines 186-217.  removeContainer may throw, and then removeIssue is skipped.
handlePRClosed(owner, repo, prNumber) ==
  LET found == FindByPRNumber(activeIssues, prNumber)
  IN /\ IF found = {}
          THEN UNCHANGED << activeIssues, docker >>
          ELSE \E key \in found :
                 LET cid == activeIssues[key].containerId
                 IN \E removed \in BOOLEAN :
                      IF removed
                        THEN /\ docker' = IF cid \in ContainerIds
                                            THEN [ docker EXCEPT ![cid] = "removed" ]
                                            ELSE docker
                             /\ activeIssues' = removeIssue(activeIssues, key[1], key[2], key[3])
                        ELSE UNCHANGED << activeIssues, docker >>
     /\ call' = [ NoCall EXCEPT !.op = "handlePRClosed", !.key = << owner, repo, prNumber >> ]
     /\ UNCHANGED pollVars
     /\ UNCHANGED loopVars
     /\ UNCHANGED << usePolling, maxConcurrent, now, handlers, dockerKey, prOf, sweepTodo >>

handlePRReview_AnyState(owner, repo, prNumber, review) ==
  LET found == FindByPRNumber(activeIssues, prNumber)
      event == [ NoCall EXCEPT !.op = "handlePRReview", !.key = << owner, repo, prNumber >>,
                               !.status = review.state, !.login = review.login ]
  IN /\ IF found # {}
          THEN \E key \in found : \E posted \in BOOLEAN :
                 /\ activeIssues' =
                      updateIssueStatus(activeIssues, owner, repo, key[3], "iterating",
                                        NoError, now)
                 /\ call' = [ event EXCEPT !.forwarded = posted ]
          ELSE /\ UNCHANGED activeIssues
               /\ call' = event
     /\ UNCHANGED pollVars
     /\ UNCHANGED loopVars
     /\ UNCHANGED << usePolling, maxConcurrent, now, handlers, docker, dockerKey, prOf,
                     sweepTodo >>

\* Lines 222-257.  Both event sources pass only CHANGES_REQUESTED and
\* COMMENTED reviews; review is the object they pass, its state and its
\* author's login.  postIssueComment posts the feedback or throws.
handlePRReview(owner, repo, prNumber, review) ==
  LET found == FindByPRNumber(activeIssues, prNumber)
      event == [ NoCall EXCEPT !.op = "handlePRReview", !.key = << owner, repo, prNumber >>,
                               !.status = review.state, !.login = review.login ]
  IN /\ IF found # {} /\ review.state = "CHANGES_REQUESTED"
          THEN \E key \in found : \E posted \in BOOLEAN :
                 /\ activeIssues' =
                      updateIssueStatus(activeIssues, owner, repo, key[3], "iterating",
                                        NoError, now)
                 /\ call' = [ event EXCEPT !.forwarded = posted ]
          ELSE /\ UNCHANGED activeIssues
               /\ call' = event
     /\ UNCHANGED pollVars
     /\ UNCHANGED loopVars
     /\ UNCHANGED << usePolling, maxConcurrent, now, handlers, docker, dockerKey, prOf,
                     sweepTodo >>

(***************************************************************************)
(* The health check loop (startHealthCheckLoop) and the clock              *)
(***************************************************************************)
\* Line 273: the container states the health loop treats as a crash.
isTerminated_OrUnknown(status) == status \in { "exited", "dead", "unknown" }

isTerminated(status) == status \in { "exited", "dead" }

\* Lines 263-266: the interval fires and takes the list of stale issues, the
\* ActiveIssue objects as they are at that moment.  The interval does not wait
\* for a sweep to end: sweep numbers the sweeps in flight.
HealthSweepStarts(sweep) ==
  /\ "health" \in timers
  /\ \A e \in sweepTodo : e.sweep # sweep
  /\ \A s \in 1..MaxSweeps : s < sweep => \E e \in sweepTodo : e.sweep = s
  /\ getStaleIssues(activeIssues, now) # {}
  /\ sweepTodo' =
       sweepTodo \cup { [ sweep |-> sweep, key |-> k, containerId |-> activeIssues[k].containerId ] :
                          k \in getStaleIssues(activeIssues, now) }
  /\ UNCHANGED pollVars
  /\ UNCHANGED loopVars
  /\ UNCHANGED << usePolling, maxConcurrent, activeIssues, now, handlers, docker,
                  dockerKey, prOf, call >>

HealthCheckIssue_NoNotice(e) ==
  /\ e \in sweepTodo
  /\ sweepTodo' = sweepTodo \ { e }
  /\ \E status \in getContainerStatusOutcomes(e.containerId) :
       /\ call' = [ NoCall EXCEPT !.op = "healthCheck", !.key = e.key,
                                  !.containerId = e.containerId, !.status = status ]
       /\ activeIssues' =
            IF isTerminated(status)
              THEN updateIssueStatus(activeIssues, e.key[1], e.key[2], e.key[3], "error",
                                     "Container terminated unexpectedly (status: "
                                       \o status \o ")", now)
              ELSE activeIssues
  /\ UNCHANGED pollVars
  /\ UNCHANGED loopVars
  /\ UNCHANGED << usePolling, maxConcurrent, now, handlers, docker, dockerKey, prOf >>

\* Lines 266-302, for one stale issue of the list: the container's status is
\* read, and for a terminated container the unit is set to error, the logs
\* are read (getLogs never throws) and the notification is posted.
HealthCheckIssue(e) ==
  /\ e \in sweepTodo
  /\ sweepTodo' = sweepTodo \ { e }
  /\ \E status \in getContainerStatusOutcomes(e.containerId) :
       /\ call' = [ NoCall EXCEPT !.op = "healthCheck", !.key = e.key,
                                  !.containerId = e.containerId, !.status = status ]
       /\ IF isTerminated(status)
            THEN /\ activeIssues' =
                      updateIssueStatus(activeIssues, e.key[1], e.key[2], e.key[3], "error",
                                        "Container terminated unexpectedly (status: "
                                          \o status \o ")", now)
                 /\ notified' = [ notified EXCEPT ![e.key] = IF @ < MaxNotices THEN @ + 1 ELSE @ ]
            ELSE UNCHANGED << activeIssues, notified >>
  /\ UNCHANGED pollVars
  /\ UNCHANGED << timers, stopState, agent, issueLog >>
  /\ UNCHANGED << usePolling, maxConcurrent, now, handlers, docker, dockerKey, prOf >>

CleanupStoppedContainers_NotRunning ==
  /\ "cleanup" \in timers
  /\ LET stopped == { c \in ContainerIds : docker[c] \in { "created", "exited", "dead" } }
     IN /\ stopped # {}
        /\ \E removed \in SUBSET stopped :
             docker' = [ c \in ContainerIds |-> IF c \in removed THEN "removed" ELSE docker[c] ]
  /\ UNCHANGED pollVars
  /\ UNCHANGED loopVars
  /\ UNCHANGED << usePolling, maxConcurrent, activeIssues, now, handlers, dockerKey,
                  prOf, sweepTodo, call >>

\* startCleanupLoop, lines 313-324, and cleanupStoppedContainers: the managed
\* containers listed as exited or dead are removed, each removal on its own
\* (a failed one is logged).
CleanupStoppedContainers ==
  /\ "cleanup" \in timers
  /\ LET stopped == { c \in ContainerIds : docker[c] \in { "exited", "dead" } }
     IN /\ stopped # {}
        /\ \E removed \in SUBSET stopped :
             docker' = [ c \in ContainerIds |-> IF c \in removed THEN "removed" ELSE docker[c] ]
  /\ UNCHANGED pollVars
  /\ UNCHANGED loopVars
  /\ UNCHANGED << usePolling, maxConcurrent, activeIssues, now, handlers, dockerKey,
                  prOf, sweepTodo, call >>

(***************************************************************************)
(* Orchestrator.stop                                                       *)
(***************************************************************************)
\* removeContainer, lines 99-113: the state it leaves the container in, and
\* whether it throws.  stop()'s failure is swallowed; remove() fails for a
\* container docker does not have.
removeContainerOutcomes(containerId) ==
  IF docker[containerId] \in { "absent", "removed" }
    THEN { [ state |-> docker[containerId], threw |-> TRUE ] }
    ELSE { [ state |-> "removed", threw |-> FALSE ],
           [ state |-> docker[containerId], threw |-> TRUE ] }
         \cup ( IF docker[containerId] = "running"
                  THEN { [ state |-> "exited", threw |-> TRUE ] }
                  ELSE {} )

\* The container ids of the units of the registry (line 347: a unit without
\* one is passed over).
getAllActiveHandles(reg) ==
  { reg[k].containerId : k \in { u \in DOMAIN reg : reg[u].containerId # NoContainer } }

stop_KeepsPollTimer ==
  /\ stopState.pc = "running"
  /\ timers' = timers \ { "health", "cleanup" }
  /\ stopState' =
       [ pc |-> IF getAllActiveHandles(activeIssues) = {} THEN "stopped" ELSE "stopping",
         snapshot |-> getAllActiveHandles(activeIssues),
         todo |-> getAllActiveHandles(activeIssues),
         requested |-> {}, failed |-> {} ]
  /\ UNCHANGED pollVars
  /\ UNCHANGED << notified, agent, issueLog >>
  /\ UNCHANGED << usePolling, maxConcurrent, activeIssues, now, handlers, docker,
                  dockerKey, prOf, sweepTodo, call >>

\* Lines 329-346: clearInterval for the health and cleanup intervals,
\* GitHubPoller.stop for the poller's, and the list of units is taken
\* (getAllActive copies the registry's values into an array).
stop ==
  /\ stopState.pc = "running"
  /\ timers' = {}
  /\ stopState' =
       [ pc |-> IF getAllActiveHandles(activeIssues) = {} THEN "stopped" ELSE "stopping",
         snapshot |-> getAllActiveHandles(activeIssues),
         todo |-> getAllActiveHandles(activeIssues),
         requested |-> {}, failed |-> {} ]
  /\ UNCHANGED pollVars
  /\ UNCHANGED << notified, agent, issueLog >>
  /\ UNCHANGED << usePolling, maxConcurrent, activeIssues, now, handlers, docker,
                  dockerKey, prOf, sweepTodo, call >>

\* Lines 345-353: removeContainer for one unit of the list; a failure is logged
\* and the loop goes on.
StopRemovesContainer(c) ==
  /\ stopState.pc = "stopping"
  /\ c \in stopState.todo
  /\ \E r \in removeContainerOutcomes(c) :
       /\ docker' = [ docker EXCEPT ![c] = r.state ]
       /\ stopState' =
            [ stopState EXCEPT
                !.todo = @ \ { c },
                !.requested = @ \cup { c },
                !.failed = IF r.threw THEN @ \cup { c } ELSE @,
                !.pc = IF stopState.todo = { c } THEN "stopped" ELSE "stopping" ]
  /\ UNCHANGED pollVars
  /\ UNCHANGED << notified, timers, agent, issueLog >>
  /\ UNCHANGED << usePolling, maxConcurrent, activeIssues, now, handlers, dockerKey,
                  prOf, sweepTodo, call >>

Tick ==
  /\ now < MaxTicks * TickMs
  /\ now' = now + TickMs
  /\ UNCHANGED pollVars
  /\ UNCHANGED loopVars
  /\ UNCHANGED << usePolling, maxConcurrent, activeIssues, handlers, docker, dockerKey,
                  prOf, sweepTodo, call >>

(***************************************************************************)
(* Strings the poller inspects, as sequences of one-character strings      *)
(***************************************************************************)
UpperCase ==
  << "A", "B", "C", "D", "E", "F", "G", "H", "I", "J", "K", "L", "M",
     "N", "O", "P", "Q", "R", "S", "T", "U", "V", "W", "X", "Y", "Z" >>

LowerCase ==
  << "a", "b", "c", "d", "e", "f", "g", "h", "i", "j", "k", "l", "m",
     "n", "o", "p", "q", "r", "s", "t", "u", "v", "w", "x", "y", "z" >>

toLowerCase(s) ==
  [ i \in 1..Len(s) |->
      IF \E j \in DOMAIN UpperCase : UpperCase[j] = s[i]
        THEN LowerCase[CHOOSE j \in DOMAIN UpperCase : UpperCase[j] = s[i]]
        ELSE s[i] ]

includes(s, t) ==
  \E i \in 1..(Len(s) - Len(t) + 1) : SubSeq(s, i, i + Len(t) - 1) = t

endsWith(s, t) ==
  Len(t) <= Len(s) /\ SubSeq(s, Len(s) - Len(t) + 1, Len(s)) = t

startsWith(s, t) ==
  Len(t) <= Len(s) /\ SubSeq(s, 1, Len(t)) = t

\* The subsequence of seq at the indexes in S.
RECURSIVE Restrict(_, _)
Restrict(seq, S) ==
  IF seq = << >>
    THEN << >>
    ELSE LET rest == Restrict(Tail(seq), { i - 1 : i \in S \ { 1 } })
         IN IF 1 \in S THEN << Head(seq) >> \o rest ELSE rest

\* The first of the indexes, 0 when there is none: where a loop over a
\* response reaches its next await.
FirstIndex(indexes) ==
  IF indexes = {}
    THEN 0
    ELSE CHOOSE i \in indexes : \A j \in indexes : i <= j

\* Map.get(key) || 0
MapGet(m, key) == IF key \in DOMAIN m THEN m[key] ELSE 0

(***************************************************************************)
(* The poller's configuration and the part of GitHub it reads              *)
(***************************************************************************)
PollIntervalMs == 60 * 1000

\* config.repos
ConfigRepos ==
  << [ owner |-> "acme", name |-> "app", enabled |-> TRUE,
       triggerComment |-> << "@", "b", "o", "t" >> ],
     [ owner |-> "acme", name |-> "old", enabled |-> FALSE,
       triggerComment |-> << "@", "b", "o", "t" >> ],
     [ owner |-> "acme", name |-> "lib", enabled |-> TRUE,
       triggerComment |-> << "/", "a", "i" >> ] >>

\* `${repo.owner}/${repo.name}`
repoKeyOf(repo) == << repo.owner, repo.name >>

RepoKeys == { repoKeyOf(ConfigRepos[i]) : i \in DOMAIN ConfigRepos }

AppRepo == << "acme", "app" >>

Alice == << "a", "l", "i", "c", "e" >>
Carol == << "C", "a", "r", "o", "l" >>
CiBot == << "c", "i", "[", "B", "o", "t", "]" >>
NoLogin == << >>

PlainBody == << "o", "k" >>
TriggerBody == << "@", "b", "o", "t" >>
MixedCaseTriggerBody == << "p", "l", "s", " ", "@", "B", "o", "t" >>
\* A body with the trigger phrase of acme/lib and not that of acme/app.
LibTriggerBody == << "/", "a", "i" >>

\* issues.listForRepo(state: 'open'): the open issues of a repository,
\* newest first; pull requests appear in the list as well.
OpenIssues(key) ==
  IF key = AppRepo
    THEN << [ number |-> 11, pull_request |-> TRUE, login |-> CiBot, body |-> PlainBody ],
            [ number |-> 9, pull_request |-> FALSE, login |-> Alice, body |-> TriggerBody ],
            [ number |-> 7, pull_request |-> FALSE, login |-> Carol, body |-> PlainBody ],
            [ number |-> 5, pull_request |-> FALSE, login |-> CiBot, body |-> PlainBody ] >>
    ELSE << >>

\* The comments of acme/app GitHub will hold, by id: ids grow with time.
CommentIds == 1..MaxComments

CommentOf(id) ==
  CASE id % 3 = 1 -> [ id |-> id, issue |-> 9, login |-> Alice, body |-> PlainBody ]
    [] id % 3 = 2 -> [ id |-> id, issue |-> 9, login |-> CiBot, body |-> TriggerBody ]
    [] OTHER      -> [ id |-> id, issue |-> 7, login |-> Carol, body |-> MixedCaseTriggerBody ]

\* The pull requests of acme/app, by number.
PullNumbers == { 11, 12 }

\* The pull requests of a repository, most recently updated first.
PullRequests(key) ==
  IF key = AppRepo
    THEN << [ number |-> 12, state |-> pulls[12], ref |-> << "f", "i", "x" >> ],
            [ number |-> 11, state |-> pulls[11],
              ref |-> << "a", "i", "-", "a", "g", "e", "n", "t", "-",
                         "i", "s", "s", "u", "e", "-", "7", "-", "1" >> ] >>
    ELSE << >>

\* pulls.list(state: 'open'): the open pull requests of a repository.
listPulls(key) == SelectSeq(PullRequests(key), LAMBDA pr : pr.state = "open")

\* The reviews of acme/app#11 GitHub will hold, by id.
ReviewIds == 1..MaxReviews

ReviewOf(id) ==
  CASE id % 3 = 1 -> [ id |-> id, pr |-> 11, login |-> Carol, state |-> "CHANGES_REQUESTED" ]
    [] id % 3 = 2 -> [ id |-> id, pr |-> 11, login |-> Alice, state |-> "APPROVED" ]
    [] OTHER      -> [ id |-> id, pr |-> 11, login |-> CiBot, state |-> "COMMENTED" ]

\* The look-up of a listed issue or pull request by its number.
IssueOf(key, number) ==
  LET list == OpenIssues(key)
  IN list[CHOOSE i \in DOMAIN list : list[i].number = number]

\* The pull request of a pulls.list response with the number.
PullRequestOf(list, number) ==
  list[CHOOSE i \in DOMAIN list : list[i].number = number]

\* issues.listComments: the comments of the issue, oldest first.  The `since`
\* parameter is new Date(lastCommentId): an instant in January 1970 for any
\* comment id, so it filters nothing.
listComments(key, issueNumber) ==
  IF key = AppRepo
    THEN Restrict([ i \in CommentIds |-> i ],
                  { i \in CommentIds : comments[i] = "posted" /\ CommentOf(i).issue = issueNumber })
    ELSE << >>

\* pulls.listReviews: the reviews of the pull request, oldest first.
listReviews(key, prNumber) ==
  IF key = AppRepo
    THEN Restrict([ i \in ReviewIds |-> i ],
                  { i \in ReviewIds : reviews[i] = "submitted" /\ ReviewOf(i).pr = prNumber })
    ELSE << >>

\* Math.max(...response.data.map(c => c.id)), 0 for an empty response.
MaxOf(ids) ==
  IF ids = << >>
    THEN 0
    ELSE CHOOSE m \in { ids[i] : i \in DOMAIN ids } : \A i \in DOMAIN ids : ids[i] <= m

(***************************************************************************)
(* GitHubPoller                                                            *)
(***************************************************************************)
enabledRepos == SelectSeq(ConfigRepos, LAMBDA r : r.enabled)

isTriggerComment(body, repo) ==
  includes(toLowerCase(body), toLowerCase(repo.triggerComment))

botPatterns ==
  { << "[", "b", "o", "t", "]" >>, << "-", "b", "o", "t" >>, << "b", "o", "t" >>,
    << "a", "g", "e", "n", "t" >>, << "a", "i", "-", "a", "g", "e", "n", "t" >> }

isBotUser(login) ==
  login = NoLogin \/ \E p \in botPatterns : endsWith(toLowerCase(login), p)

\* GET /rate_limit: what the request can give.
RateResponses ==
  { [ ok |-> FALSE, remaining |-> 0, limit |-> 0 ],
    [ ok |-> TRUE, remaining |-> 499, limit |-> CoreLimit ],
    [ ok |-> TRUE, remaining |-> 500, limit |-> CoreLimit ] }

checkRateLimit_AtMost(response) ==
  IF response.ok
    THEN ~(response.remaining * 10 <= response.limit)
    ELSE TRUE

\* TRUE: the cycle proceeds.  rate.remaining < rate.limit * 0.1 on integers.
checkRateLimit(response) ==
  IF response.ok
    THEN ~(response.remaining * 10 < response.limit)
    ELSE TRUE

\* A handler of PollerHandlers resolves or rejects.
HandlerOutcomes == { "returns", "throws" }

Slots == 1..MaxInFlight

MapIds == 1..(Len(ConfigRepos) + MaxInFlight)

\* A pollAll invocation that is not running.
IdleCycle ==
  [ pc |-> "idle", repo |-> 0, queue |-> << >>, item |-> 0, lastId |-> 0,
    batch |-> << >>, maxId |-> 0, capturedNow |-> 0, mapRef |-> 0, prData |-> << >> ]

\* The Map objects something still refers to.
Referenced(st, cyc) ==
  ( { st.lastCommentCheck[k] : k \in RepoKeys } \cup { cyc[s].mapRef : s \in Slots } ) \ { 0 }

\* The Map objects nothing refers to any more are empty again.
Collect(hp, st, cyc) ==
  [ m \in MapIds |-> IF m \in Referenced(st, cyc) THEN hp[m] ELSE EmptyMap ]

\* new Map(): an object no one refers to yet.
NewMap(w) ==
  LET used == Referenced(w.st, [ cycles EXCEPT ![w.slot] = w.c ])
  IN CHOOSE m \in MapIds : m \notin used /\ \A n \in MapIds : n < m => n \in used

\* The repository the cycle is polling.
RepoOf(c) == enabledRepos[c.repo]

\* pollIssueComments, lines 296-304: the indexes of the comments of a response
\* that go to onIssueTriggered.
CommentEvents(ids, lastId, repo) ==
  { i \in DOMAIN ids : /\ ids[i] > lastId
                       /\ ~isBotUser(CommentOf(ids[i]).login)
                       /\ isTriggerComment(CommentOf(ids[i]).body, repo) }

\* pollPRReviews, lines 405-413: the indexes of the reviews of a response
\* that go to onPRReview.
ReviewEvents(ids, lastId) ==
  { i \in DOMAIN ids : /\ ids[i] > lastId
                       /\ ~isBotUser(ReviewOf(ids[i]).login)
                       /\ ReviewOf(ids[i]).state \in { "CHANGES_REQUESTED", "COMMENTED" } }

\* pollNewIssues, lines 230-237: the indexes of the issues of a response whose
\* body goes to onIssueTriggered.
IssueEvents(key, numbers, repo) ==
  { i \in DOMAIN numbers : isTriggerComment(IssueOf(key, numbers[i]).body, repo) }

\* What one stretch of a cycle between two awaits works on: the cycle's own
\* locals (c) and the poller's state, the Map objects, the events emitted and
\* the line it logs.
Step(slot) ==
  [ slot |-> slot, c |-> cycles[slot], st |-> pollState, hp |-> heap,
    em |-> emitted, log |-> "none", due |-> closureDue ]

\* pollRepo, line 199: pollNewIssues sends its listing request.
StartPollNewIssues(w, r) ==
  [ w EXCEPT !.c = [ IdleCycle EXCEPT !.pc = "issues", !.repo = r ] ]

\* pollAll, lines 152-158: the next enabled repository, or the cycle's end.
NextRepo(w) ==
  IF w.c.repo < Len(enabledRepos)
    THEN StartPollNewIssues(w, w.c.repo + 1)
    ELSE [ w EXCEPT !.c = IdleCycle ]

\* pollOurPRs, lines 356-374, and pollPRReviews, lines 394-403: the next
\* agent pull request of the listing is tracked and its reviews are requested.
NextPR(w) ==
  IF w.c.queue = << >>
    THEN NextRepo(w)
    ELSE LET key == repoKeyOf(RepoOf(w.c))
             prKey == << key[1], key[2], Head(w.c.queue) >>
         IN [ w EXCEPT !.st.knownPRs = @ \cup { prKey },
                       !.c.pc = "reviewFetch",
                       !.c.item = Head(w.c.queue),
                       !.c.queue = Tail(w.c.queue),
                       !.c.lastId = MapGet(w.st.knownReviews, prKey),
                       !.c.batch = << >>,
                       !.c.maxId = 0 ]

\* pollOurPRs, lines 376-382: a pull request whose listed state is closed goes
\* to onPRClosed.
AfterReviews(w) ==
  IF PullRequestOf(w.c.prData, w.c.item).state = "closed"
    THEN [ w EXCEPT !.c.pc = "closedHandler" ]
    ELSE NextPR(w)

\* pollPRReviews, lines 405-439: the reviews of the response up to the next
\* one that goes to onPRReview; after the last one the watermark is written.
ScanReviews(w) ==
  LET c == w.c
      key == repoKeyOf(RepoOf(c))
      prKey == << key[1], key[2], c.item >>
      idx == FirstIndex(ReviewEvents(c.batch, c.lastId))
  IN IF idx = 0
       THEN AfterReviews(IF c.maxId > 0
                           THEN [ w EXCEPT !.st.knownReviews = MapSet(@, prKey, c.maxId) ]
                           ELSE w)
       ELSE [ w EXCEPT !.c.pc = "reviewHandler",
                       !.c.batch = SubSeq(c.batch, idx + 1, Len(c.batch)) ]

\* pollRepo, line 205: pollOurPRs sends its listing request.
StartPollOurPRs(w) ==
  [ w EXCEPT !.c = [ IdleCycle EXCEPT !.pc = "prs", !.repo = w.c.repo ] ]

\* pollIssueComments, lines 277-293 and 332: the next issue of the listing has
\* its watermark read and its comments requested; after the last issue the
\* repository's Map is stored.
NextCommentIssue(w) ==
  IF w.c.queue = << >>
    THEN StartPollOurPRs([ w EXCEPT !.st.lastCommentCheck[repoKeyOf(RepoOf(w.c))] = w.c.mapRef ])
    ELSE [ w EXCEPT !.c.pc = "commentFetch",
                    !.c.item = Head(w.c.queue),
                    !.c.queue = Tail(w.c.queue),
                    !.c.lastId = MapGet(w.hp[w.c.mapRef], Head(w.c.queue)),
                    !.c.batch = << >>,
                    !.c.maxId = 0 ]

CommentsFailed_Aborts(w) ==
  StartPollOurPRs([ w EXCEPT !.log = "Error checking comments for issue" ])

\* Lines 326-329: the catch around one issue's comments.
CommentsFailed(w) ==
  NextCommentIssue([ w EXCEPT !.log = "Error checking comments for issue" ])

\* Lines 320-324: the watermark of the issue becomes the largest id of the
\* response, when the response holds a comment.
UpdateLastSeenComment(w) ==
  IF w.c.maxId > 0
    THEN [ w EXCEPT !.hp[w.c.mapRef] = MapSet(@, w.c.item, w.c.maxId) ]
    ELSE w

ScanComments_AdvanceFirst(w) ==
  LET c == w.c
      idx == FirstIndex(CommentEvents(c.batch, c.lastId, RepoOf(c)))
  IN IF idx = 0
       THEN NextCommentIssue(UpdateLastSeenComment(w))
       ELSE [ UpdateLastSeenComment(w) EXCEPT
                !.c.pc = "commentHandler",
                !.c.batch = SubSeq(c.batch, idx + 1, Len(c.batch)),
                !.em[c.batch[idx]] = IF @ < 2 THEN @ + 1 ELSE @ ]

\* pollIssueComments, lines 296-324: the comments of the response up to the
\* next one that goes to onIssueTriggered; after the last one the watermark
\* is written.
ScanComments(w) ==
  LET c == w.c
      idx == FirstIndex(CommentEvents(c.batch, c.lastId, RepoOf(c)))
  IN IF idx = 0
       THEN NextCommentIssue(UpdateLastSeenComment(w))
       ELSE [ w EXCEPT !.c.pc = "commentHandler",
                       !.c.batch = SubSeq(c.batch, idx + 1, Len(c.batch)),
                       !.em[c.batch[idx]] = IF @ < 2 THEN @ + 1 ELSE @ ]

\* pollRepo, line 202, and pollIssueComments, lines 265-275: the Map of the
\* repository, or a new one, and the request for the open issues.
StartPollIssueComments(w) ==
  LET stored == w.st.lastCommentCheck[repoKeyOf(RepoOf(w.c))]
  IN [ w EXCEPT !.c = [ IdleCycle EXCEPT !.pc = "openIssues", !.repo = w.c.repo,
                                         !.mapRef = IF stored # 0 THEN stored ELSE NewMap(w) ] ]

\* pollNewIssues, lines 249-252.
InitCommentTracking(w) ==
  IF w.st.lastCommentCheck[repoKeyOf(RepoOf(w.c))] = 0
    THEN [ w EXCEPT !.st.lastCommentCheck[repoKeyOf(RepoOf(w.c))] = NewMap(w) ]
    ELSE w

\* pollNewIssues, lines 230-255: the issues of the response up to the next
\* one whose body holds the trigger; after the last one the time of the
\* listing is stored.
ScanIssues(w) ==
  LET c == w.c
      key == repoKeyOf(RepoOf(c))
      idx == FirstIndex(IssueEvents(key, c.queue, RepoOf(c)))
  IN IF idx = 0
       THEN LET w1 == IF c.queue # << >> THEN InitCommentTracking(w) ELSE w
            IN StartPollIssueComments([ w1 EXCEPT !.st.lastIssueCheck[key] = c.capturedNow ])
       ELSE LET w1 == IF idx > 1 THEN InitCommentTracking(w) ELSE w
            IN [ w1 EXCEPT !.c.pc = "issueHandler",
                           !.c.item = c.queue[idx],
                           !.c.queue = SubSeq(c.queue, idx + 1, Len(c.queue)) ]

\* The stretch ends at its next await: its effects become the state.
Suspend(w) ==
  /\ cycles' = [ cycles EXCEPT ![w.slot] = w.c ]
  /\ pollState' = w.st
  /\ heap' = Collect(w.hp, w.st, [ cycles EXCEPT ![w.slot] = w.c ])
  /\ emitted' = w.em
  /\ logged' = w.log
  /\ closureDue' = w.due
  /\ UNCHANGED << comments, reviews, pulls >>

OrchestratorFrame ==
  UNCHANGED << usePolling, maxConcurrent, activeIssues, handlers, docker, dockerKey,
               prOf, sweepTodo, call, loopVars >>

\* start() and the setInterval callback, lines 111-127: a pollAll invocation
\* begins and sends GET /rate_limit.  The interval does not wait for the
\* previous invocation.
PollStarts(slot) ==
  /\ usePolling
  /\ "poll" \in timers
  /\ cycles[slot].pc = "idle"
  /\ \A s \in Slots : s < slot => cycles[s].pc # "idle"
  /\ now < MaxPolls * PollIntervalMs
  /\ now' = now + PollIntervalMs
  /\ cycles' = [ cycles EXCEPT ![slot] = [ IdleCycle EXCEPT !.pc = "rate" ] ]
  /\ logged' = "none"
  /\ UNCHANGED << pollState, heap, rateLimitRemaining, comments, reviews, emitted,
                  pulls, closureDue >>
  /\ OrchestratorFrame

\* The interval fires after the previous invocation has ended: cycles that
\* last less than the poll interval.
PollStartsInTurn(slot) ==
  /\ \A s \in Slots : cycles[s].pc = "idle"
  /\ PollStarts(slot)

\* pollAll, lines 145-152, and checkRateLimit.
RateChecked(slot) ==
  /\ cycles[slot].pc = "rate"
  /\ \E response \in RateResponses :
       /\ rateLimitRemaining' = IF response.ok THEN response.remaining ELSE rateLimitRemaining
       /\ IF checkRateLimit(response)
            THEN Suspend(StartPollNewIssues(
                   [ Step(slot) EXCEPT !.log = IF response.ok
                                                 THEN "none"
                                                 ELSE "Failed to check rate limit" ], 1))
            ELSE Suspend([ Step(slot) EXCEPT !.c = IdleCycle, !.log = "Rate limit low" ])
  /\ UNCHANGED now
  /\ OrchestratorFrame

\* pollNewIssues, lines 218-258: the listing of the issues updated since the
\* last check arrives, or the request fails.
IssuesListed(slot) ==
  /\ cycles[slot].pc = "issues"
  /\ LET w == Step(slot)
         list == OpenIssues(repoKeyOf(RepoOf(w.c)))
     IN \/ Suspend(StartPollIssueComments([ w EXCEPT !.log = "Error polling issues" ]))
        \/ \E S \in SUBSET (DOMAIN list) :
             LET data == Restrict(list, S)
                 issues == SelectSeq(data, LAMBDA issue : ~issue.pull_request)
             IN Suspend(ScanIssues(
                  [ w EXCEPT !.c.capturedNow = now,
                             !.c.queue = [ i \in DOMAIN issues |-> issues[i].number ] ]))
  /\ UNCHANGED << now, rateLimitRemaining >>
  /\ OrchestratorFrame

\* pollNewIssues, lines 241-258: onIssueTriggered for an issue body returns
\* or throws.
IssueHandlerReturns(slot) ==
  /\ cycles[slot].pc = "issueHandler"
  /\ \E outcome \in HandlerOutcomes :
       IF outcome = "returns"
         THEN Suspend(ScanIssues(InitCommentTracking(Step(slot))))
         ELSE Suspend(StartPollIssueComments([ Step(slot) EXCEPT !.log = "Error polling issues" ]))
  /\ UNCHANGED << now, rateLimitRemaining >>
  /\ OrchestratorFrame

\* pollIssueComments, lines 270-283 and 334-336: the listing of the open
\* issues arrives, or the request fails.
OpenIssuesListed(slot) ==
  /\ cycles[slot].pc = "openIssues"
  /\ LET w == Step(slot)
         data == OpenIssues(repoKeyOf(RepoOf(w.c)))
         issues == SelectSeq(data, LAMBDA issue : ~issue.pull_request /\ ~isBotUser(issue.login))
     IN \/ Suspend(StartPollOurPRs([ w EXCEPT !.log = "Error polling issue comments" ]))
        \/ Suspend(NextCommentIssue(
             [ w EXCEPT !.c.queue = [ i \in DOMAIN issues |-> issues[i].number ] ]))
  /\ UNCHANGED << now, rateLimitRemaining >>
  /\ OrchestratorFrame

\* pollIssueComments, lines 287-329: the comments of one issue arrive, or the
\* request fails.
CommentsListed(slot) ==
  /\ cycles[slot].pc = "commentFetch"
  /\ LET w == Step(slot)
         data == listComments(repoKeyOf(RepoOf(w.c)), w.c.item)
     IN \/ Suspend(CommentsFailed(w))
        \/ Suspend(ScanComments([ w EXCEPT !.c.batch = data, !.c.maxId = MaxOf(data) ]))
  /\ UNCHANGED << now, rateLimitRemaining >>
  /\ OrchestratorFrame

\* pollIssueComments, lines 311-329: onIssueTriggered for a comment returns
\* or throws.
CommentHandlerReturns(slot) ==
  /\ cycles[slot].pc = "commentHandler"
  /\ \E outcome \in HandlerOutcomes :
       IF outcome = "returns"
         THEN Suspend(ScanComments(Step(slot)))
         ELSE Suspend(CommentsFailed(Step(slot)))
  /\ UNCHANGED << now, rateLimitRemaining >>
  /\ OrchestratorFrame

\* pollOurPRs, lines 347-360 and 385-387: the listing of the open pull
\* requests arrives, or the request fails.
PRsListed(slot) ==
  /\ cycles[slot].pc = "prs"
  /\ LET w == Step(slot)
         key == repoKeyOf(RepoOf(w.c))
         data == listPulls(key)
         ours == SelectSeq(data, LAMBDA pr : startsWith(pr.ref, AgentBranchPrefix))
     IN \/ Suspend(NextRepo([ w EXCEPT !.log = "Error polling PRs" ]))
        \/ Suspend(NextPR(
             [ w EXCEPT !.c.prData = data,
                        !.c.queue = [ i \in DOMAIN ours |-> ours[i].number ],
                        !.due = @ \cup { k \in w.st.knownPRs :
                                           /\ << k[1], k[2] >> = key
                                           /\ pulls[k[3]] = "closed" } ]))
  /\ UNCHANGED << now, rateLimitRemaining >>
  /\ OrchestratorFrame

\* pollPRReviews, lines 399-443: the reviews of one pull request arrive, or
\* the request fails.
ReviewsListed(slot) ==
  /\ cycles[slot].pc = "reviewFetch"
  /\ LET w == Step(slot)
         data == listReviews(repoKeyOf(RepoOf(w.c)), w.c.item)
     IN \/ Suspend(AfterReviews([ w EXCEPT !.log = "Error polling reviews for PR" ]))
        \/ Suspend(ScanReviews([ w EXCEPT !.c.batch = data, !.c.maxId = MaxOf(data) ]))
  /\ UNCHANGED << now, rateLimitRemaining >>
  /\ OrchestratorFrame

\* pollPRReviews, lines 420-443: onPRReview returns or throws.
ReviewHandlerReturns(slot) ==
  /\ cycles[slot].pc = "reviewHandler"
  /\ \E outcome \in HandlerOutcomes :
       IF outcome = "returns"
         THEN Suspend(ScanReviews(Step(slot)))
         ELSE Suspend(AfterReviews([ Step(slot) EXCEPT !.log = "Error polling reviews for PR" ]))
  /\ UNCHANGED << now, rateLimitRemaining >>
  /\ OrchestratorFrame

(***************************************************************************)
(* GitHub's users                                                          *)
(***************************************************************************)
PollerFrame ==
  UNCHANGED << pollState, heap, rateLimitRemaining, logged, cycles, emitted, closureDue >>

\* Someone posts the next comment.
CommentPosted(id) ==
  /\ comments[id] = "future"
  /\ \A j \in CommentIds : j < id => comments[j] # "future"
  /\ comments' = [ comments EXCEPT ![id] = "posted" ]
  /\ UNCHANGED << now, reviews, pulls >>
  /\ PollerFrame
  /\ OrchestratorFrame

\* Its author or a maintainer deletes a comment.
CommentDeleted(id) ==
  /\ comments[id] = "posted"
  /\ comments' = [ comments EXCEPT ![id] = "deleted" ]
  /\ UNCHANGED << now, reviews, pulls >>
  /\ PollerFrame
  /\ OrchestratorFrame

\* A reviewer submits the next review of the agent's pull request.
ReviewSubmitted(id) ==
  /\ reviews[id] = "future"
  /\ \A j \in ReviewIds : j < id => reviews[j] # "future"
  /\ reviews' = [ reviews EXCEPT ![id] = "submitted" ]
  /\ UNCHANGED << now, comments, pulls >>
  /\ PollerFrame
  /\ OrchestratorFrame

\* A maintainer closes or merges a pull request.
PullRequestClosed(n) ==
  /\ pulls[n] = "open"
  /\ pulls' = [ pulls EXCEPT ![n] = "closed" ]
  /\ UNCHANGED << now, comments, reviews >>
  /\ PollerFrame
  /\ OrchestratorFrame

(***************************************************************************)
(* pollNewIssues with the time filter of its listing                       *)
(***************************************************************************)
\* The numbers of the issues and pull requests issues.listForRepo knows.
PolledIssues == { OpenIssues(AppRepo)[i].number : i \in DOMAIN OpenIssues(AppRepo) }

\* pollNewIssues, line 213: lastIssueCheck.get(repoKey) || Date.now() - 24h.
sinceOf(st, key) ==
  IF st.lastIssueCheck[key] # 0 THEN st.lastIssueCheck[key] ELSE now - 24 * 60 * 60 * 1000

\* pollNewIssues, lines 218-258, with issues.listForRepo({ since }) answering
\* as GitHub does: the open issues last updated at or after `since`.  Or the
\* request fails.
IssuesListedSince(slot) ==
  /\ cycles[slot].pc = "issues"
  /\ LET w == Step(slot)
         key == repoKeyOf(RepoOf(w.c))
         list == OpenIssues(key)
         S == { i \in DOMAIN list : issueLog.updated[list[i].number] >= sinceOf(w.st, key) }
     IN \/ Suspend(StartPollIssueComments([ w EXCEPT !.log = "Error polling issues" ]))
        \/ LET data == Restrict(list, S)
               issues == SelectSeq(data, LAMBDA issue : ~issue.pull_request)
           IN Suspend(ScanIssues(
                [ w EXCEPT !.c.capturedNow = now,
                           !.c.queue = [ i \in DOMAIN issues |-> issues[i].number ] ]))
  /\ UNCHANGED << now, rateLimitRemaining >>
  /\ OrchestratorFrame

\* pollNewIssues, lines 241-258, with a handler of the kind the orchestrator
\* binds: the event is counted; the handler posts one reply on the issue (the
\* acknowledgement, already-being-handled, slots-full or the failure notice of
\* handleIssueTriggered) and returns, or rejects without a reply, as
\* handleIssueTriggered does for the arguments the poller passes.  The reply is
\* created after the instant the cycle captured at line 228; the two have the
\* same value of the model's clock.
IssueTriggerHandled(slot) ==
  /\ cycles[slot].pc = "issueHandler"
  /\ LET n == cycles[slot].item
     IN \E outcome \in HandlerOutcomes :
          IF outcome = "returns"
            THEN /\ Suspend(ScanIssues(InitCommentTracking(Step(slot))))
                 /\ issueLog' = [ issueLog EXCEPT !.events[n] = @ + 1,
                                                  !.replies[n] = @ + 1,
                                                  !.updated[n] = now ]
            ELSE /\ Suspend(StartPollIssueComments(
                              [ Step(slot) EXCEPT !.log = "Error polling issues" ]))
                 /\ issueLog' = [ issueLog EXCEPT !.events[n] = @ + 1 ]
  /\ UNCHANGED << now, rateLimitRemaining >>
  /\ UNCHANGED << usePolling, maxConcurrent, activeIssues, handlers, docker, dockerKey,
                  prOf, sweepTodo, call, notified, timers, stopState, agent >>

(***************************************************************************)
(* WebhookServer and GitHubClient                                          *)
(***************************************************************************)
isBotComment_Never(userLogin) == FALSE

\* GitHubClient.isBotComment: botSuffixes are the poller's botPatterns.
isBotComment(userLogin) == \E suffix \in botPatterns : endsWith(toLowerCase(userLogin), suffix)

\* GitHubClient.getRepoConfig: the indexes of the entries repos.find can return.
getRepoConfig(owner, name) ==
  { i \in DOMAIN ConfigRepos :
      /\ ConfigRepos[i].enabled
      /\ ConfigRepos[i].owner = owner
      /\ ConfigRepos[i].name = name }

\* GitHubClient.isTriggerComment(body, repos): the phrase of any enabled repository.
hasTrigger(body) ==
  \E i \in DOMAIN ConfigRepos :
    /\ ConfigRepos[i].enabled
    /\ includes(toLowerCase(body), toLowerCase(ConfigRepos[i].triggerComment))

\* handleIssueCommentEvent, lines 917-972, for a created comment: the event
\* that passes the checks is acknowledged (addReaction) and goes to
\* onIssueTriggered; any other one is dropped.
handleIssueCommentEvent(comment) ==
  /\ ~usePolling
  /\ ~isBotComment(comment.login)
  /\ getRepoConfig(comment.key[1], comment.key[2]) # {}
  /\ hasTrigger(comment.body)
  /\ BagCardinality(handlers) < MaxHandlers
  /\ handlers' =
       handlers (+) SetToBag({ Admitted([ kind |-> "object", owner |-> comment.key[1],
                                          repo |-> comment.key[2], number |-> comment.key[3] ]) })
  /\ call' = [ NoCall EXCEPT !.op = "onIssueTriggered", !.key = comment.key,
                             !.login = comment.login, !.body = comment.body ]
  /\ UNCHANGED pollVars
  /\ UNCHANGED loopVars
  /\ UNCHANGED << usePolling, maxConcurrent, activeIssues, now, docker, dockerKey,
                  prOf, sweepTodo >>

\* handlePullRequestReviewEvent, lines 998-1029: the review that passes the
\* checks goes to onPRReview; any other one is dropped.
handlePullRequestReviewEvent(owner, repo, prNumber, review) ==
  /\ ~usePolling
  /\ review.state \in { "CHANGES_REQUESTED", "COMMENTED" }
  /\ ~isBotComment(review.login)
  /\ handlePRReview(owner, repo, prNumber, review)

(***************************************************************************)
(* The workload of a container: entrypoint.sh and the Agent                *)
(***************************************************************************)
\* Agent.monitorPRAndIterate, line 246.
maxIterations == 5

\* The container before its entrypoint runs: no status reported, no review
\* addressed.  batch holds the reviews the running iteration works on, and
\* addressed counts, per review, the iterations that were pushed for it.
NotStarted ==
  [ pc |-> "entry", status |-> "", phase |-> 0, iterations |-> 0, approved |-> FALSE,
    batch |-> {}, addressed |-> [ id \in ReviewIds |-> 0 ] ]

\* The statuses Agent.run reports, in the order of its phases (lines 34-67).
RunPhases == << "analyzing", "developing", "testing", "pr_created", "awaiting_review" >>

\* Agent.isBotUser, lines 436-440.
Agent_isBotUser(login) ==
  \/ login = NoLogin
  \/ \E p \in { << "[", "b", "o", "t", "]" >>, << "-", "b", "o", "t" >>,
                << "a", "g", "e", "n", "t" >>, << "a", "i", "-", "a", "g", "e", "n", "t" >> } :
       endsWith(toLowerCase(login), p)

\* entrypoint.sh up to the start of the agent: send_status starting, send_status
\* cloning, and git clone, after which it sends analyzing and runs node, or
\* sends error and exits.
send_status ==
  /\ agent.pc \in { "entry", "cloning", "clone" }
  /\ \/ /\ agent.pc = "entry"
        /\ agent' = [ agent EXCEPT !.status = "starting", !.pc = "cloning" ]
     \/ /\ agent.pc = "cloning"
        /\ agent' = [ agent EXCEPT !.status = "cloning", !.pc = "clone" ]
     \/ /\ agent.pc = "clone"
        /\ \E cloned \in BOOLEAN :
             agent' = IF cloned
                        THEN [ agent EXCEPT !.status = "analyzing", !.pc = "run" ]
                        ELSE [ agent EXCEPT !.status = "error", !.pc = "exited" ]
  /\ UNCHANGED pollVars
  /\ UNCHANGED << notified, timers, stopState, issueLog >>
  /\ UNCHANGED << usePolling, maxConcurrent, activeIssues, now, handlers, docker,
                  dockerKey, prOf, sweepTodo, call >>

\* Agent.run, lines 26-78: the phase the agent is in ends, and it reports the
\* next phase's status, or the phase fails and the catch block reports error;
\* after monitorPRAndIterate has returned it reports done.
Agent_run ==
  /\ agent.pc \in { "run", "finish" }
  /\ \/ /\ agent.pc = "run"
        /\ \E ok \in IF agent.phase = 0 THEN { TRUE } ELSE BOOLEAN :
             agent' = IF ok
                        THEN [ agent EXCEPT !.status = RunPhases[agent.phase + 1],
                                            !.phase = agent.phase + 1,
                                            !.pc = IF agent.phase + 1 = Len(RunPhases)
                                                     THEN "monitor" ELSE "run" ]
                        ELSE [ agent EXCEPT !.status = "error", !.pc = "exit1" ]
     \/ /\ agent.pc = "finish"
        /\ agent' = [ agent EXCEPT !.status = "done", !.pc = "exit0" ]
  /\ UNCHANGED pollVars
  /\ UNCHANGED << notified, timers, stopState, issueLog >>
  /\ UNCHANGED << usePolling, maxConcurrent, activeIssues, now, handlers, docker,
                  dockerKey, prOf, sweepTodo, call >>

\* monitorPRAndIterate, lines 252-274 and 298-303: one pass of the loop.  The
\* reviews of the pull request are fetched (getPRReviews gives [] when the
\* request fails); with a CHANGES_REQUESTED review of a person among them the
\* agent reports iterating and starts on the feedback of all of them;
\* otherwise an approval ends the loop.
monitorPRAndIterate ==
  /\ agent.pc = "monitor"
  /\ agent.iterations < maxIterations
  /\ \E response \in { listReviews(AppRepo, 11), << >> } :
       LET changesRequested ==
             { response[i] : i \in { j \in DOMAIN response :
                 /\ ReviewOf(response[j]).state = "CHANGES_REQUESTED"
                 /\ ~Agent_isBotUser(ReviewOf(response[j]).login) } }
           approved == \E i \in DOMAIN response : ReviewOf(response[i]).state = "APPROVED"
       IN agent' =
            IF changesRequested # {}
              THEN [ agent EXCEPT !.status = "iterating", !.pc = "feedback",
                                  !.approved = approved, !.batch = changesRequested ]
              ELSE IF approved
                     THEN [ agent EXCEPT !.pc = "finish" ]
                     ELSE agent
  /\ UNCHANGED pollVars
  /\ UNCHANGED << notified, timers, stopState, issueLog >>
  /\ UNCHANGED << usePolling, maxConcurrent, activeIssues, now, handlers, docker,
                  dockerKey, prOf, sweepTodo, call >>

\* monitorPRAndIterate, lines 276-295 and 305-307: handleFeedback fails and
\* the pass counts as an iteration; or the changes are committed and pushed,
\* awaiting_review is reported and the pass counts; or the commit or the push
\* throws and Agent.run reports error.  The loop ends after a pass that found
\* an approval and after the last allowed iteration.
handleFeedback ==
  /\ agent.pc = "feedback"
  /\ \E outcome \in { "failed", "pushed", "throws" } :
       agent' =
         CASE outcome = "failed" ->
                [ agent EXCEPT !.iterations = @ + 1, !.batch = {},
                               !.pc = IF agent.iterations + 1 >= maxIterations
                                        THEN "finish" ELSE "monitor" ]
           [] outcome = "pushed" ->
                [ agent EXCEPT !.iterations = @ + 1, !.status = "awaiting_review",
                               !.batch = {},
                               !.addressed = [ id \in ReviewIds |->
                                                 IF id \in agent.batch /\ @[id] < MaxAddressed
                                                   THEN @[id] + 1 ELSE @[id] ],
                               !.pc = IF agent.approved \/ agent.iterations + 1 >= maxIterations
                                        THEN "finish" ELSE "monitor" ]
           [] OTHER -> [ agent EXCEPT !.status = "error", !.batch = {}, !.pc = "exit1" ]
  /\ UNCHANGED pollVars
  /\ UNCHANGED << notified, timers, stopState, issueLog >>
  /\ UNCHANGED << usePolling, maxConcurrent, activeIssues, now, handlers, docker,
                  dockerKey, prOf, sweepTodo, call >>

EntrypointEnds_AlwaysDone ==
  /\ agent.pc \in { "exit0", "exit1" }
  /\ agent' = [ agent EXCEPT !.status = "done", !.pc = "exited" ]
  /\ UNCHANGED pollVars
  /\ UNCHANGED << notified, timers, stopState, issueLog >>
  /\ UNCHANGED << usePolling, maxConcurrent, activeIssues, now, handlers, docker,
                  dockerKey, prOf, sweepTodo, call >>

\* main, lines 500-507, and the end of entrypoint.sh: the process exits with 0
\* and the script sends done; or it exits with 1 and the script, which runs
\* under set -e, ends there.
EntrypointEnds ==
  /\ agent.pc \in { "exit0", "exit1" }
  /\ agent' = IF agent.pc = "exit0"
                THEN [ agent EXCEPT !.status = "done", !.pc = "exited" ]
                ELSE [ agent EXCEPT !.pc = "exited" ]
  /\ UNCHANGED pollVars
  /\ UNCHANGED << notified, timers, stopState, issueLog >>
  /\ UNCHANGED << usePolling, maxConcurrent, activeIssues, now, handlers, docker,
                  dockerKey, prOf, sweepTodo, call >>

\* One workload and the reviewers of its pull request.
NextAgent ==
  \/ send_status
  \/ Agent_run
  \/ monitorPRAndIterate
  \/ handleFeedback
  \/ EntrypointEnds
  \/ \E id \in ReviewIds : ReviewSubmitted(id)

(***************************************************************************)
(* The orchestrator as a whole                                             *)
(***************************************************************************)
Init ==
  /\ usePolling \in BOOLEAN
  /\ maxConcurrent \in 1..MaxConfigConcurrent
  /\ activeIssues = EmptyMap
  /\ now = 0
  /\ handlers = EmptyBag
  /\ docker = [ c \in ContainerIds |-> "absent" ]
  /\ dockerKey = [ c \in ContainerIds |-> UndefinedKey ]
  /\ prOf = [ c \in ContainerIds |-> NoPR ]
  /\ sweepTodo = {}
  /\ call = NoCall
  /\ notified = [ k \in IssueKeys |-> 0 ]
  /\ timers = IF usePolling THEN { "health", "cleanup", "poll" } ELSE { "health", "cleanup" }
  /\ stopState = [ pc |-> "running", snapshot |-> {}, todo |-> {}, requested |-> {},
                    failed |-> {} ]
  /\ agent = NotStarted
  /\ issueLog = [ updated |-> [ n \in PolledIssues |-> 0 ],
                  events |-> [ n \in PolledIssues |-> 0 ],
                  replies |-> [ n \in PolledIssues |-> 0 ] ]
  /\ pollState = [ lastIssueCheck |-> [ k \in RepoKeys |-> 0 ],
                   lastCommentCheck |-> [ k \in RepoKeys |-> 0 ],
                   knownPRs |-> {},
                   knownReviews |-> EmptyMap ]
  /\ heap = [ m \in MapIds |-> EmptyMap ]
  /\ rateLimitRemaining = CoreLimit
  /\ logged = "none"
  /\ cycles = [ s \in Slots |-> IdleCycle ]
  /\ comments = [ i \in CommentIds |-> "future" ]
  /\ reviews = [ i \in ReviewIds |-> "future" ]
  /\ emitted = [ i \in CommentIds |-> 0 ]
  /\ pulls = [ n \in PullNumbers |-> "open" ]
  /\ closureDue = {}

Next ==
  \/ \E issue \in TriggerArguments : handleIssueTriggered(issue)
  \/ \E h \in BagToSet(handlers) : TriggerRejected(h)
  \/ \E h \in BagToSet(handlers) : TriggerStartsContainer(h)
  \/ \E h \in BagToSet(handlers) : TriggerRegisters(h)
  \/ \E h \in BagToSet(handlers) : TriggerFailureReported(h)
  \/ \E c \in ContainerIds : AgentCreatesPR(c)
  \/ \E c \in ContainerIds : \E status \in AllStatuses : PostApiStatus(c, status)
  \/ \E pr \in AgentPRs : ~usePolling /\ handlePRClosed(pr[1], pr[2], pr[3])
  \/ \E pr \in AgentPRs : \E reviewState \in { "CHANGES_REQUESTED", "COMMENTED" } :
       handlePRReview(pr[1], pr[2], pr[3], [ state |-> reviewState, login |-> Carol ])

Spec == Init /\ [][Next]_vars

\* The life of the unit of one issue in webhook mode: acme/app#1 is the only
\* issue anyone triggers the agent for.
InitUnit == Init /\ ~usePolling

NextUnit ==
  \/ \E issue \in TriggerArguments :
       /\ << issue.owner, issue.repo, issue.number >> = << "acme", "app", 1 >>
       /\ handleIssueTriggered(issue)
  \/ \E h \in BagToSet(handlers) : TriggerRejected(h)
  \/ \E h \in BagToSet(handlers) : TriggerStartsContainer(h)
  \/ \E h \in BagToSet(handlers) : TriggerRegisters(h)
  \/ \E h \in BagToSet(handlers) : TriggerFailureReported(h)
  \/ \E c \in ContainerIds : AgentCreatesPR(c)
  \/ \E pr \in AgentPRs : handlePRClosed(pr[1], pr[2], pr[3])
  \/ \E c \in ContainerIds : ContainerStops(c)
  \/ \E sweep \in 1..MaxSweeps : HealthSweepStarts(sweep)
  \/ \E e \in sweepTodo : HealthCheckIssue(e)
  \/ CleanupStoppedContainers
  \/ Tick

\* What the event loop guarantees: a handler that can continue does, the
\* health and cleanup intervals fire, a sweep checks its issues (and docker's
\* inspect does not fail every time it could answer), the clock advances, and
\* the closure of an agent's pull request is delivered.
FairUnit ==
  /\ WF_vars(\E h \in BagToSet(handlers) : TriggerRejected(h))
  /\ WF_vars(\E h \in BagToSet(handlers) : TriggerStartsContainer(h))
  /\ WF_vars(\E h \in BagToSet(handlers) : TriggerRegisters(h))
  /\ WF_vars(\E h \in BagToSet(handlers) : TriggerFailureReported(h))
  /\ WF_vars(\E pr \in AgentPRs : handlePRClosed(pr[1], pr[2], pr[3]))
  /\ WF_vars(\E sweep \in 1..MaxSweeps : HealthSweepStarts(sweep))
  /\ WF_vars(\E e \in sweepTodo : HealthCheckIssue(e))
  /\ SF_vars(\E e \in sweepTodo : HealthCheckIssue(e) /\ call'.status # "unknown")
  /\ WF_vars(CleanupStoppedContainers)
  /\ WF_vars(Tick)

SpecUnitFair == InitUnit /\ [][NextUnit]_vars /\ FairUnit

SpecUnit == InitUnit /\ [][NextUnit]_vars

\* The workload of one container from its entrypoint to its exit, with the
\* reviews of its pull request arriving at any moment.
SpecAgent == Init /\ [][NextAgent]_vars

\* The orchestrator with its three timers, in both modes, stopped at any
\* moment: triggers for the issues of acme/app arrive by webhook and their
\* handlers run, containers stop, the health and cleanup intervals and the
\* poller's interval fire.  A tick is five minutes: it is taken between
\* handler invocations and sweeps, not across one.
InitStop == Init /\ maxConcurrent = MaxConfigConcurrent

NextStop ==
  \/ \E issue \in TriggerArguments :
       /\ ~usePolling
       /\ issue.repo = "app"
       /\ handleIssueTriggered(issue)
  \/ \E h \in BagToSet(handlers) : TriggerRejected(h)
  \/ \E h \in BagToSet(handlers) : TriggerStartsContainer(h)
  \/ \E h \in BagToSet(handlers) : TriggerRegisters(h)
  \/ \E h \in BagToSet(handlers) : TriggerFailureReported(h)
  \/ \E c \in ContainerIds : ContainerStops(c)
  \/ \E sweep \in 1..MaxSweeps : HealthSweepStarts(sweep)
  \/ \E e \in sweepTodo : HealthCheckIssue(e)
  \/ CleanupStoppedContainers
  \/ handlers = EmptyBag /\ sweepTodo = {} /\ Tick
  \/ \E slot \in Slots : PollStartsInTurn(slot)
  \/ \E slot \in Slots : RateChecked(slot)
  \/ \E slot \in Slots : IssuesListed(slot)
  \/ \E slot \in Slots : OpenIssuesListed(slot)
  \/ \E slot \in Slots : CommentsListed(slot)
  \/ \E slot \in Slots : PRsListed(slot)
  \/ \E slot \in Slots : ReviewsListed(slot)
  \/ stop
  \/ \E c \in ContainerIds : StopRemovesContainer(c)

SpecStop == InitStop /\ [][NextStop]_vars

\* The orchestrator stopped while trigger handlers are in flight: every
\* trigger arrives before stop() is called, and the handlers it started go on
\* at their awaits while stop() awaits its removals.
NextStopInFlight ==
  \/ \E issue \in TriggerArguments :
       /\ stopState.pc = "running"
       /\ issue.repo = "app"
       /\ handleIssueTriggered(issue)
  \/ \E h \in BagToSet(handlers) : TriggerRejected(h)
  \/ \E h \in BagToSet(handlers) : TriggerStartsContainer(h)
  \/ \E h \in BagToSet(handlers) : TriggerRegisters(h)
  \/ \E h \in BagToSet(handlers) : TriggerFailureReported(h)
  \/ \E c \in ContainerIds : ContainerStops(c)
  \/ stop
  \/ \E c \in ContainerIds : StopRemovesContainer(c)

SpecStopInFlight == InitStop /\ [][NextStopInFlight]_vars

\* The poller on its own, with handlers that resolve or reject.
NextPoll ==
  \/ \E slot \in Slots : PollStartsInTurn(slot)
  \/ \E slot \in Slots : RateChecked(slot)
  \/ \E slot \in Slots : IssuesListed(slot)
  \/ \E slot \in Slots : IssueHandlerReturns(slot)
  \/ \E slot \in Slots : OpenIssuesListed(slot)
  \/ \E slot \in Slots : CommentsListed(slot)
  \/ \E slot \in Slots : CommentHandlerReturns(slot)
  \/ \E slot \in Slots : PRsListed(slot)
  \/ \E slot \in Slots : ReviewsListed(slot)
  \/ \E slot \in Slots : ReviewHandlerReturns(slot)
  \/ \E id \in CommentIds : CommentPosted(id)
  \/ \E id \in CommentIds : CommentDeleted(id)
  \/ \E id \in ReviewIds : ReviewSubmitted(id)

InitPoll == Init /\ usePolling /\ maxConcurrent = 1

SpecPoll == InitPoll /\ [][NextPoll]_vars

\* The poller on a repository where nothing happens after the issues were
\* opened: no comment, no review, no closure.
NextPollQuiet ==
  \/ \E slot \in Slots : PollStartsInTurn(slot)
  \/ \E slot \in Slots : RateChecked(slot)
  \/ \E slot \in Slots : IssuesListedSince(slot)
  \/ \E slot \in Slots : IssueTriggerHandled(slot)
  \/ \E slot \in Slots : OpenIssuesListed(slot)
  \/ \E slot \in Slots : CommentsListed(slot)
  \/ \E slot \in Slots : PRsListed(slot)
  \/ \E slot \in Slots : ReviewsListed(slot)

SpecPollQuiet == InitPoll /\ [][NextPollQuiet]_vars

\* The poller with an interval shorter than a cycle may last: a pollAll
\* invocation starts while the previous one is still awaiting a response or
\* a handler.  People comment on the issues; no one reviews.
NextPollOverlap ==
  \/ \E slot \in Slots : PollStarts(slot)
  \/ \E slot \in Slots : RateChecked(slot)
  \/ \E slot \in Slots : IssuesListed(slot)
  \/ \E slot \in Slots : IssueHandlerReturns(slot)
  \/ \E slot \in Slots : OpenIssuesListed(slot)
  \/ \E slot \in Slots : CommentsListed(slot)
  \/ \E slot \in Slots : CommentHandlerReturns(slot)
  \/ \E slot \in Slots : PRsListed(slot)
  \/ \E slot \in Slots : ReviewsListed(slot)
  \/ \E id \in CommentIds : CommentPosted(id)

SpecPollOverlap == InitPoll /\ [][NextPollOverlap]_vars

\* The poller and the pull requests of a repository no one comments on.
NextPollPRs ==
  \/ \E slot \in Slots : PollStartsInTurn(slot)
  \/ \E slot \in Slots : RateChecked(slot)
  \/ \E slot \in Slots : IssuesListed(slot)
  \/ \E slot \in Slots : IssueHandlerReturns(slot)
  \/ \E slot \in Slots : OpenIssuesListed(slot)
  \/ \E slot \in Slots : CommentsListed(slot)
  \/ \E slot \in Slots : PRsListed(slot)
  \/ \E slot \in Slots : ReviewsListed(slot)
  \/ \E slot \in Slots : ReviewHandlerReturns(slot)
  \/ \E id \in ReviewIds : ReviewSubmitted(id)
  \/ \E n \in PullNumbers : PullRequestClosed(n)

SpecPollPRs == InitPoll /\ [][NextPollPRs]_vars

\* The two sources of review events: the poller in polling mode, whose
\* interval does not wait for the previous cycle, on a repository no one
\* comments on; the webhook server's pull_request_review handler otherwise.
NextReviewSources ==
  \/ \E slot \in Slots : PollStarts(slot)
  \/ \E slot \in Slots : RateChecked(slot)
  \/ \E slot \in Slots : IssuesListed(slot)
  \/ \E slot \in Slots : IssueHandlerReturns(slot)
  \/ \E slot \in Slots : OpenIssuesListed(slot)
  \/ \E slot \in Slots : CommentsListed(slot)
  \/ \E slot \in Slots : PRsListed(slot)
  \/ \E slot \in Slots : ReviewsListed(slot)
  \/ \E slot \in Slots : ReviewHandlerReturns(slot)
  \/ \E id \in ReviewIds : usePolling /\ ReviewSubmitted(id)
  \/ \E pr \in PullNumbers :
       \E review \in [ login : { Carol, CiBot },
                       state : { "CHANGES_REQUESTED", "COMMENTED", "APPROVED", "DISMISSED" } ] :
         handlePullRequestReviewEvent("acme", "app", pr, review)

InitSources == Init /\ maxConcurrent = 1

SpecReviewSources == InitSources /\ [][NextReviewSources]_vars

\* The issue_comment events GitHub delivers: a comment on any issue, by a
\* person or a bot, with no trigger phrase, the phrase of acme/app or that of
\* acme/lib.
WebhookComments ==
  [ key : IssueKeys, login : { Alice, CiBot },
    body : { PlainBody, MixedCaseTriggerBody, LibTriggerBody } ]

\* The two sources of comment triggers: the poller in polling mode, on a
\* repository no one reviews; the webhook server's issue_comment handler
\* otherwise, with the trigger handlers it starts.
NextCommentSources ==
  \/ \E slot \in Slots : PollStartsInTurn(slot)
  \/ \E slot \in Slots : RateChecked(slot)
  \/ \E slot \in Slots : IssuesListed(slot)
  \/ \E slot \in Slots : IssueHandlerReturns(slot)
  \/ \E slot \in Slots : OpenIssuesListed(slot)
  \/ \E slot \in Slots : CommentsListed(slot)
  \/ \E slot \in Slots : CommentHandlerReturns(slot)
  \/ \E slot \in Slots : PRsListed(slot)
  \/ \E slot \in Slots : ReviewsListed(slot)
  \/ \E id \in CommentIds : usePolling /\ CommentPosted(id)
  \/ \E id \in CommentIds : usePolling /\ CommentDeleted(id)
  \/ \E comment \in WebhookComments : handleIssueCommentEvent(comment)
  \/ \E h \in BagToSet(handlers) : TriggerRejected(h)
  \/ \E h \in BagToSet(handlers) : TriggerStartsContainer(h)
  \/ \E h \in BagToSet(handlers) : TriggerRegisters(h)
  \/ \E h \in BagToSet(handlers) : TriggerFailureReported(h)

SpecCommentSources == InitSources /\ [][NextCommentSources]_vars

TypeOK ==
  /\ usePolling \in BOOLEAN
  /\ maxConcurrent \in 1..MaxConfigConcurrent
  /\ DOMAIN activeIssues \subseteq IssueKeys \cup { UndefinedKey }
  /\ \A k \in DOMAIN activeIssues : activeIssues[k].status \in AllStatuses


(***************************************************************************)
(* The StateManager on its own: its public methods called in any order,    *)
(* as the orchestrator or a test of the class may call them.               *)
(***************************************************************************)
RegistryKeys == { <<"acme", "app", 1>>, <<"acme", "lib", 1>> }

RegistryFrame == UNCHANGED << usePolling, maxConcurrent, now, handlers, docker, dockerKey,
                              prOf, sweepTodo, loopVars, pollVars >>

\* Docker container ids are unique: no two units carry the same one.
CallRegisterIssue(key, containerId) ==
  /\ \A k \in (DOMAIN activeIssues) \ { key } : activeIssues[k].containerId # containerId
  /\ activeIssues' =
       registerIssue(activeIssues,
         [ repoOwner |-> key[1], repoName |-> key[2], issueNumber |-> key[3],
           containerId |-> containerId, status |-> "starting", prNumber |-> NoPR,
           startedAt |-> now, lastHeartbeat |-> NoHeartbeat, error |-> NoError ])
  /\ call' = [ NoCall EXCEPT !.op = "registerIssue", !.key = key, !.containerId = containerId ]
  /\ RegistryFrame

CallUpdateIssueStatus(key, status, error) ==
  /\ activeIssues' = updateIssueStatus(activeIssues, key[1], key[2], key[3], status, error, now)
  /\ call' = [ NoCall EXCEPT !.op = "updateIssueStatus", !.key = key, !.status = status ]
  /\ RegistryFrame

CallUpdateIssueByContainerId(containerId, status) ==
  /\ activeIssues' = updateIssueByContainerId(activeIssues, containerId, status, now)
  /\ call' = [ NoCall EXCEPT !.op = "updateIssueByContainerId", !.containerId = containerId,
                               !.status = status ]
  /\ RegistryFrame

CallSetPRNumber(key, prNumber) ==
  /\ activeIssues' = setPRNumber(activeIssues, key[1], key[2], key[3], prNumber)
  /\ call' = [ NoCall EXCEPT !.op = "setPRNumber", !.key = key, !.status = "pr_created" ]
  /\ RegistryFrame

CallRemoveIssue(key) ==
  /\ activeIssues' = removeIssue(activeIssues, key[1], key[2], key[3])
  /\ call' = [ NoCall EXCEPT !.op = "removeIssue", !.key = key ]
  /\ RegistryFrame

NextRegistry ==
  \/ \E key \in RegistryKeys : \E c \in ContainerIds : CallRegisterIssue(key, c)
  \/ \E key \in RegistryKeys : CallUpdateIssueStatus(key, "developing", NoError)
  \/ \E key \in RegistryKeys : CallUpdateIssueStatus(key, "error", "Container terminated unexpectedly")
  \/ \E c \in ContainerIds : CallUpdateIssueByContainerId(c, "testing")
  \/ \E key \in RegistryKeys : CallSetPRNumber(key, 11)
  \/ \E key \in RegistryKeys : CallRemoveIssue(key)

SpecRegistry == Init /\ [][NextRegistry]_vars

\* The registry's operations while time passes: units of every age, with and
\* without heartbeat.
NextRegistryClock ==
  \/ NextRegistry
  \/ Tick

SpecRegistryClock == Init /\ [][NextRegistryClock]_vars

\* The closure and review handlers on a registry whose units had their pull
\* request numbers recorded through setPRNumber.  Pull request numbers are
\* per repository: acme/app#11 and acme/lib#11 are different pull requests.
NextCorrelator ==
  \/ \E key \in IssueKeys : \E c \in ContainerIds : CallRegisterIssue(key, c)
  \/ \E key \in IssueKeys : CallSetPRNumber(key, 11)
  \/ \E repo \in TrackedRepos : handlePRClosed(repo[1], repo[2], 11)
  \/ \E repo \in TrackedRepos :
       \E reviewState \in { "CHANGES_REQUESTED", "COMMENTED", "APPROVED" } :
         handlePRReview(repo[1], repo[2], 11, [ state |-> reviewState, login |-> Carol ])

SpecCorrelator == Init /\ [][NextCorrelator]_vars


(***************************************************************************)
(* Properties: admission and the registry                                  *)
(***************************************************************************)
\* The invocations of handleIssueTriggered that enter in this step.
Entering(h) ==
  /\ h \in BagToSet(handlers')
  /\ CopiesIn(h, handlers') > CopiesIn(h, handlers)
  /\ h.pc \in { "replyActive", "replyFull", "start" }

\* The registered unit whose container's agent opened the pull request.
UnitsOfPR(pr) ==
  { k \in DOMAIN activeIssues :
      /\ activeIssues[k].containerId \in ContainerIds
      /\ prOf[activeIssues[k].containerId] = pr[3]
      /\ dockerKey[activeIssues[k].containerId][1] = pr[1]
      /\ dockerKey[activeIssues[k].containerId][2] = pr[2] }

\* C1: in every reachable state the registry holds at most maxConcurrent
\* units, however the handlers interleave at their awaits.
C1_RegistryWithinCapacity == Cardinality(DOMAIN activeIssues) <= maxConcurrent

\* C2, first part: a trigger whose handler begins while the unit of its issue
\* is registered never reaches the container start, and the step that ends a
\* rejected handler leaves the registry and docker unchanged.
C2_TriggerForLiveUnitRejected ==
  [][ /\ \A h \in BagToSet(handlers') :
           (Entering(h) /\ h.event \in DOMAIN activeIssues) => h.pc # "start"
      /\ \A h \in BagToSet(handlers) :
           (h.pc \in { "replyActive", "replyFull" } /\ CopiesIn(h, handlers') < CopiesIn(h, handlers))
             => (activeIssues' = activeIssues /\ docker' = docker) ]_vars

\* C2: while the unit of an issue is registered, no step starts a container
\* for that issue and no step replaces the registered unit by another one.
C2_NoSecondRuntimeWhileLive ==
  [][ \A k \in DOMAIN activeIssues :
        /\ k \in DOMAIN activeIssues'
             => activeIssues'[k].containerId = activeIssues[k].containerId
        /\ \A c \in ContainerIds :
             (docker[c] = "absent" /\ docker'[c] # "absent") => dockerKey'[c] # k ]_vars

\* C3, first part: with maxConcurrent = 2 and two units registered, a third
\* trigger is answered with queue position 1 and nothing is stored for it.
C3_RejectedAtPositionOne ==
  \A h \in BagToSet(handlers) :
    (h.pc = "replyFull" /\ maxConcurrent = 2 /\ Cardinality(DOMAIN activeIssues) = 2)
      => (h.queuePos = 1 /\ h.key \notin DOMAIN activeIssues)

\* C3, second part: once the closure of a unit's pull request has been
\* handled, the unit has left the registry (its slot is free again).
C3_ClosureFreesSlot ==
  call.op = "handlePRClosed" => UnitsOfPR(call.key) = {}

\* C3: the scenario of the spec: A and B admitted, C rejected at position 1,
\* the closure of A's pull request frees A's slot.
C3_QueueScenario == C3_RejectedAtPositionOne /\ C3_ClosureFreesSlot

\* C4: a trigger rejected for capacity is told the position
\* size - maxConcurrent + 1 of the registry it was checked against, and that
\* position is at least 1.
C4_QueuePosition ==
  [][ \A h \in BagToSet(handlers') :
        (Entering(h) /\ h.pc = "replyFull")
          => /\ h.queuePos = Cardinality(DOMAIN activeIssues) - maxConcurrent + 1
             /\ h.queuePos >= 1 ]_vars

C4_Witness == \E h \in BagToSet(handlers) : h.pc = "replyFull" /\ h.queuePos = 1

\* C5: updateIssueStatus, setPRNumber, updateIssueByContainerId and
\* removeIssue for a key or container id without a registered unit return
\* the registry as it was: nothing is created, changed or brought back.
C5_MissingKeyIsNoOp ==
  [][ /\ ( /\ call'.op \in { "updateIssueStatus", "setPRNumber", "removeIssue" }
           /\ call'.key \notin DOMAIN activeIssues )
        => activeIssues' = activeIssues
      /\ ( /\ call'.op = "updateIssueByContainerId"
           /\ getIssueByContainerId(activeIssues, call'.containerId) = {} )
        => activeIssues' = activeIssues ]_vars

\* An update arrives for a unit that was registered and has been removed.
C5_Witness ==
  /\ call.op \in { "updateIssueStatus", "setPRNumber", "updateIssueByContainerId" }
  /\ call.key \notin DOMAIN activeIssues
  /\ getIssueByContainerId(activeIssues, call.containerId) = {}
  /\ activeIssues # EmptyMap

(***************************************************************************)
(* Properties: the poller's watermarks                                     *)
(***************************************************************************)
\* The watermark a cycle reads for the comments of an issue when it starts
\* on the repository.
lastSeenComment(key, issueNumber) ==
  IF pollState.lastCommentCheck[key] = 0
    THEN 0
    ELSE MapGet(heap[pollState.lastCommentCheck[key]], issueNumber)

lastSeenReview(prKey) == MapGet(pollState.knownReviews, prKey)

IssueNumbersOf(key) == { OpenIssues(key)[i].number : i \in DOMAIN OpenIssues(key) }

PRKeysOf(key) ==
  { << key[1], key[2], PullRequests(key)[i].number >> : i \in DOMAIN PullRequests(key) }

\* The pollAll invocation in the slot takes a step.
Acting(slot) == cycles'[slot] # cycles[slot]

\* C6: no step lowers a watermark: the time of a repository's last issue
\* poll, the last comment id of an issue, the last review id of a pull request.
C6_WatermarksNeverDecrease ==
  [][ \A key \in RepoKeys :
        /\ pollState'.lastIssueCheck[key] >= pollState.lastIssueCheck[key]
        /\ \A n \in IssueNumbersOf(key) : lastSeenComment(key, n)' >= lastSeenComment(key, n)
        /\ \A prKey \in PRKeysOf(key) : lastSeenReview(prKey)' >= lastSeenReview(prKey) ]_vars

\* C7: a step that writes a watermark is the step of a cycle that has just
\* had the last handler of the item's batch return (or received a batch
\* without events), it logs no error, and the value written is the largest id
\* of the batch (the time of the listing for the issue poll); a step that
\* logs the failure of a fetch or of a handler writes no watermark of the
\* item.
C7_AdvanceAfterConsume ==
  [][ \A slot \in Slots :
        Acting(slot) =>
          LET c == cycles[slot]
              key == repoKeyOf(RepoOf(c))
          IN /\ \A m \in MapIds : \A n \in IssueNumbersOf(AppRepo) :
                  ( /\ c.mapRef = m
                    /\ MapGet(heap'[m], n) # MapGet(heap[m], n) )
                  => /\ logged' = "none"
                     /\ c.item = n
                     /\ \/ /\ c.pc = "commentHandler"
                           /\ CommentEvents(c.batch, c.lastId, RepoOf(c)) = {}
                           /\ heap'[m][n] = c.maxId
                        \/ /\ c.pc = "commentFetch"
                           /\ CommentEvents(listComments(key, n), c.lastId, RepoOf(c)) = {}
                           /\ heap'[m][n] = MaxOf(listComments(key, n))
             /\ \A prKey \in PRKeysOf(AppRepo) :
                  lastSeenReview(prKey)' # lastSeenReview(prKey)
                  => /\ logged' = "none"
                     /\ prKey = << key[1], key[2], c.item >>
                     /\ \/ /\ c.pc = "reviewHandler"
                           /\ ReviewEvents(c.batch, c.lastId) = {}
                           /\ lastSeenReview(prKey)' = c.maxId
                        \/ /\ c.pc = "reviewFetch"
                           /\ ReviewEvents(listReviews(key, c.item), c.lastId) = {}
                           /\ lastSeenReview(prKey)' = MaxOf(listReviews(key, c.item))
             /\ \A k \in RepoKeys :
                  pollState'.lastIssueCheck[k] # pollState.lastIssueCheck[k]
                  => /\ logged' = "none"
                     /\ k = key
                     /\ \/ /\ c.pc = "issueHandler"
                           /\ IssueEvents(key, c.queue, RepoOf(c)) = {}
                           /\ pollState'.lastIssueCheck[k] = c.capturedNow
                        \/ /\ c.pc = "issues"
                           /\ pollState'.lastIssueCheck[k] = now
             /\ logged' \in { "Error checking comments for issue", "Error polling reviews for PR",
                              "Error polling issues", "Error polling issue comments",
                              "Error polling PRs" }
                  => /\ \A m \in MapIds : c.mapRef = m => heap'[m] = heap[m]
                     /\ pollState'.knownReviews = pollState.knownReviews
                     /\ pollState'.lastIssueCheck = pollState.lastIssueCheck ]_vars

\* The watermark of an issue has been written after its trigger comment was
\* handled.
C7_Witness ==
  \E id \in CommentIds :
    /\ emitted[id] = 1
    /\ lastSeenComment(AppRepo, CommentOf(id).issue) = id

\* C8: when the comments of an issue or the reviews of a pull request cannot
\* be fetched, the cycle writes no watermark and goes on with the next issue
\* or pull request of the listing, after the last one with the next stage or
\* the next repository; a failed listing of a repository's issues or pull
\* requests does not end the cycle either.
C8_FailureIsolation ==
  [][ \A slot \in Slots :
        Acting(slot) =>
          LET c == cycles[slot]
              d == cycles'[slot]
              nextRepo == IF c.repo < Len(enabledRepos)
                            THEN d.pc = "issues" /\ d.repo = c.repo + 1
                            ELSE d.pc = "idle"
          IN /\ ( c.pc = "commentFetch" /\ logged' = "Error checking comments for issue" )
                  => /\ MapGet(heap'[c.mapRef], c.item) = MapGet(heap[c.mapRef], c.item)
                     /\ IF c.queue # << >>
                          THEN /\ d.pc = "commentFetch" /\ d.repo = c.repo
                               /\ d.item = Head(c.queue) /\ d.queue = Tail(c.queue)
                          ELSE d.pc = "prs" /\ d.repo = c.repo
             /\ ( c.pc = "reviewFetch" /\ logged' = "Error polling reviews for PR" )
                  => /\ pollState'.knownReviews = pollState.knownReviews
                     /\ IF c.queue # << >>
                          THEN /\ d.pc = "reviewFetch" /\ d.repo = c.repo
                               /\ d.item = Head(c.queue) /\ d.queue = Tail(c.queue)
                          ELSE nextRepo
             /\ ( c.pc = "issues" /\ logged' = "Error polling issues" )
                  => d.pc = "openIssues" /\ d.repo = c.repo
             /\ ( c.pc = "openIssues" /\ logged' = "Error polling issue comments" )
                  => d.pc = "prs" /\ d.repo = c.repo
             /\ ( c.pc = "prs" /\ logged' = "Error polling PRs" )
                  => nextRepo ]_vars

\* The comments of issue #9 could not be fetched: its watermark is still the
\* one of the cycle before, and the cycle is fetching the comments of #7.
C8_Witness ==
  /\ logged = "Error checking comments for issue"
  /\ lastSeenComment(AppRepo, 9) > 0
  /\ \E slot \in Slots : cycles[slot].pc = "commentFetch" /\ cycles[slot].item = 7

C10_TriggerEmittedOnce == \A id \in CommentIds : emitted[id] <= 1


(***************************************************************************)
(* Properties: the two event sources                                       *)
(***************************************************************************)
\* C11: a trigger for issue n of repository (o, r) is handled under the key
\* (o, r, n) whichever source delivered it: the key every invocation of
\* handleIssueTriggered checks and registers is the one of its event.
C11_PolledTriggerKeepsKey ==
  \A h \in BagToSet(handlers) : h.key = h.event

\* C12: once the pull requests of a repository have been listed after a
\* tracked agent pull request was closed and that poll cycle has ended, the
\* pull request is gone from the known-PR set and from the review watermarks.
C12_ClosedPRForgotten ==
  \A k \in closureDue :
    (\A slot \in Slots : cycles[slot].pc = "idle")
      => /\ k \notin pollState.knownPRs
         /\ k \notin DOMAIN pollState.knownReviews

(***************************************************************************)
(* Properties: correlation of pull requests with units                     *)
(***************************************************************************)
\* The status report of the agent in container c arrives in this step.
StatusPushed(c) ==
  call' # call /\ call'.op = "POST /api/status" /\ call'.containerId = c

\* C13: when a report of an agent that has created its pull request has been
\* received, the unit of its container carries that pull request's number,
\* and when the report says pr_created the unit's status is pr_created.
C13_PRCreationCorrelates ==
  [][ \A c \in ContainerIds :
        StatusPushed(c) =>
          \A k \in getIssueByContainerId(activeIssues, c) :
            /\ k \in DOMAIN activeIssues'
            /\ prOf[c] # NoPR => activeIssues'[k].prNumber = prOf[c]
            /\ call'.status = "pr_created" => activeIssues'[k].status = "pr_created" ]_vars

\* C14: the step that handles the closure of a pull request removes the unit
\* whose agent opened it from the registry and asks docker to remove its
\* container, and afterwards no unit is found by that pull request's number.
C14_ClosureRemovesUnit ==
  [][ ( call' # call /\ call'.op = "handlePRClosed" ) =>
        /\ \A k \in UnitsOfPR(call'.key) :
             /\ k \notin DOMAIN activeIssues'
             /\ docker'[activeIssues[k].containerId] = "removed"
        /\ \A k \in FindByPRNumber(activeIssues', call'.key[3]) :
             << k[1], k[2] >> # << call'.key[1], call'.key[2] >> ]_vars

\* C16: a status report sets the status and the heartbeat of the unit whose
\* container sent it and changes no other unit; a report of a container
\* without a unit leaves the registry as it was.
C16_StatusPushUpdatesUnit ==
  [][ \A c \in ContainerIds :
        StatusPushed(c) =>
          /\ DOMAIN activeIssues' = DOMAIN activeIssues
          /\ \A k \in DOMAIN activeIssues :
               IF activeIssues[k].containerId = c
                 THEN /\ activeIssues'[k].status = call'.status
                      /\ activeIssues'[k].lastHeartbeat = now
                 ELSE activeIssues'[k] = activeIssues[k] ]_vars

\* C19: a closure or review event for pull request p of repository (o, r)
\* leaves every unit that is not of (o, r) with prNumber p as it was, in the
\* registry and with its container untouched.
C19_EventRoutedToItsUnit ==
  [][ call'.op \in { "handlePRClosed", "handlePRReview" } =>
        \A k \in DOMAIN activeIssues :
          ~( /\ k[1] = call'.key[1] /\ k[2] = call'.key[2]
             /\ activeIssues[k].prNumber = call'.key[3] )
            => /\ k \in DOMAIN activeIssues'
               /\ activeIssues'[k] = activeIssues[k]
               /\ activeIssues[k].containerId \in ContainerIds
                    => docker'[activeIssues[k].containerId] = docker[activeIssues[k].containerId] ]_vars

\* C20: the step that handles a CHANGES_REQUESTED review of a pull request
\* sets the unit whose agent opened it to iterating and posts the feedback.
C20_ChangesRequestedIterates ==
  [][ ( call' # call /\ call'.op = "handlePRReview" /\ call'.status = "CHANGES_REQUESTED" ) =>
        \A k \in UnitsOfPR(call'.key) :
          /\ k \in DOMAIN activeIssues'
          /\ activeIssues'[k].status = "iterating"
          /\ call'.forwarded ]_vars

(***************************************************************************)
(* Properties: the lifecycle of a unit                                     *)
(***************************************************************************)
TerminalStatuses == { "done", "error", "aborted" }

\* The lifecycle up to the first review, in order.
LifecycleChain ==
  << "starting", "cloning", "analyzing", "developing", "testing", "pr_created",
     "awaiting_review" >>

\* The edges of the lifecycle.
AllowedTransition(from, to) ==
  \/ \E i \in 1..(Len(LifecycleChain) - 1) :
       from = LifecycleChain[i] /\ to = LifecycleChain[i + 1]
  \/ from = "awaiting_review" /\ to = "iterating"
  \/ from = "iterating" /\ to = "awaiting_review"
  \/ from \notin TerminalStatuses /\ to \in TerminalStatuses

\* A method of the StateManager that writes a status is called in this step.
StatusWritten ==
  call'.op \in { "updateIssueStatus", "updateIssueByContainerId", "setPRNumber" }

\* C17: a status update leaves the status of a unit that is done, error or
\* aborted as it is.
C17_TerminalIsFinal ==
  [][ StatusWritten =>
        \A k \in DOMAIN activeIssues :
          ( activeIssues[k].status \in TerminalStatuses /\ k \in DOMAIN activeIssues' )
            => activeIssues'[k].status = activeIssues[k].status ]_vars

\* C18: a status update either leaves a unit's status unchanged or moves it
\* along an edge of the lifecycle.
C18_TransitionsValidated ==
  [][ StatusWritten =>
        \A k \in (DOMAIN activeIssues) \cap (DOMAIN activeIssues') :
          \/ activeIssues'[k].status = activeIssues[k].status
          \/ AllowedTransition(activeIssues[k].status, activeIssues'[k].status) ]_vars

\* C15: a registered unit whose status is error, because its work ended or
\* the health loop found its container stopped, eventually leaves the
\* registry.
C15_FinishedUnitLeaves ==
  \A k \in IssueKeys :
    ( k \in DOMAIN activeIssues /\ activeIssues[k].status = "error" )
      ~> ( k \notin DOMAIN activeIssues )


(***************************************************************************)
(* Properties: reviews, bot authors and failed starts                      *)
(***************************************************************************)
\* C21: handling a review in state APPROVED changes no unit of the registry:
\* neither the status of the unit the pull request is correlated with nor
\* any other entry.
C21_ApprovedChangesNothing ==
  [][ ( call' # call /\ call'.op = "handlePRReview" /\ call'.status = "APPROVED" )
        => activeIssues' = activeIssues ]_vars

\* An APPROVED review was handled for a pull request a registered unit of the
\* event's repository carries.
C21_Witness ==
  /\ call.op = "handlePRReview"
  /\ call.status = "APPROVED"
  /\ \E k \in DOMAIN activeIssues :
       /\ << k[1], k[2] >> = << call.key[1], call.key[2] >>
       /\ activeIssues[k].prNumber = call.key[3]
       /\ activeIssues[k].status = "pr_created"

\* C22: a review that goes to onPRReview is in state CHANGES_REQUESTED or
\* COMMENTED and its author's login ends with no bot pattern; the review the
\* poller hands over has, in addition, an id above the last-seen-review
\* watermark of its pull request.
C22_OnlyRelevantReviewsReachHandler ==
  [][ /\ ( call' # call /\ call'.op = "handlePRReview" )
           => /\ call'.status \in { "CHANGES_REQUESTED", "COMMENTED" }
              /\ ~\E p \in botPatterns : endsWith(toLowerCase(call'.login), p)
      /\ \A slot \in Slots :
           ( Acting(slot) /\ cycles'[slot].pc = "reviewHandler" )
             => LET c == cycles[slot]
                    key == repoKeyOf(RepoOf(c))
                    listed == IF c.pc = "reviewFetch" THEN listReviews(key, c.item) ELSE c.batch
                    review == ReviewOf(listed[Len(listed) - Len(cycles'[slot].batch)])
                IN /\ review.state \in { "CHANGES_REQUESTED", "COMMENTED" }
                   /\ ~\E p \in botPatterns : endsWith(toLowerCase(review.login), p)
                   /\ review.id > lastSeenReview(<< key[1], key[2], c.item >>) ]_vars

\* C23: no comment of a bot-pattern author has had an issue-trigger event
\* emitted for it, by the poller or by the webhook server, and the poller
\* requests the comments of no issue a bot-pattern author opened.
C23_NoTriggerFromBots ==
  /\ \A id \in CommentIds :
       ( \E p \in botPatterns : endsWith(toLowerCase(CommentOf(id).login), p) )
         => emitted[id] = 0
  /\ call.op = "onIssueTriggered"
       => ~\E p \in botPatterns : endsWith(toLowerCase(call.login), p)
  /\ \A slot \in Slots :
       cycles[slot].pc \in { "commentFetch", "commentHandler" }
         => ~\E p \in botPatterns :
               endsWith(toLowerCase(IssueOf(repoKeyOf(RepoOf(cycles[slot])), cycles[slot].item).login), p)

\* The poller has scanned issue 9 past the trigger comment its bot author
\* posted, and has emitted the event for a person's trigger comment.
C23_Witness ==
  /\ comments[2] = "posted"
  /\ lastSeenComment(AppRepo, 9) >= 2
  /\ \E id \in CommentIds : emitted[id] > 0

\* C24: the step in which startAgentContainer throws for a trigger and the
\* step that ends that trigger's handler leave the registry as it was, and
\* the latter posts, on the issue the trigger is about, a failure comment
\* that carries the error.
C24_FailedStartLeavesNoUnit ==
  [][ \A h \in BagToSet(handlers) :
        /\ ( /\ h.pc = "start"
             /\ handlers' = Becomes(h, [ h EXCEPT !.pc = "reportFailure",
                                                   !.cause = "Error: Failed to start container" ]) )
             => activeIssues' = activeIssues
        /\ ( /\ h.pc = "reportFailure"
             /\ h.cause = "Error: Failed to start container"
             /\ handlers' = Returns(h) )
             => /\ activeIssues' = activeIssues
                /\ call'.op = "postIssueComment"
                /\ call'.key = h.event
                /\ call'.status = "Failed to start agent: Error: Failed to start container" ]_vars

\* The failure of a start for acme/app#1 has been reported while the issue
\* has no unit, and docker holds the container whose start() failed.
C24_Witness ==
  /\ call.op = "postIssueComment"
  /\ call.key = << "acme", "app", 1 >>
  /\ << "acme", "app", 1 >> \notin DOMAIN activeIssues
  /\ \E c \in ContainerIds : docker[c] = "created" /\ dockerKey[c] = call.key

(***************************************************************************)
(* Properties: the health loop                                             *)
(***************************************************************************)
\* C25: when the health loop checks a stale unit of its list and the
\* container is reported exited or dead, the step leaves the unit in status
\* error with a non-empty error message and posts one notification for the
\* unit's issue and none for any other.
C25_CrashForcesErrorAndOneNotice ==
  [][ \A e \in sweepTodo :
        ( /\ sweepTodo' = sweepTodo \ { e }
          /\ call'.op = "healthCheck"
          /\ call'.key = e.key
          /\ call'.containerId = e.containerId
          /\ call'.status \in { "exited", "dead" }
          /\ e.key \in DOMAIN activeIssues )
          => /\ e.key \in DOMAIN activeIssues'
             /\ activeIssues'[e.key].status = "error"
             /\ activeIssues'[e.key].error # NoError
             /\ notified[e.key] < MaxNotices => notified'[e.key] = notified[e.key] + 1
             /\ \A k \in IssueKeys \ { e.key } : notified'[k] = notified[k] ]_vars

\* The unit of acme/app#1, which never sent a heartbeat and was started more
\* than ten minutes before, has been found with its container exited: it is
\* in error and one notification has been posted.
C25_Witness ==
  /\ call.op = "healthCheck"
  /\ call.status = "exited"
  /\ call.key \in DOMAIN activeIssues
  /\ activeIssues[call.key].status = "error"
  /\ activeIssues[call.key].lastHeartbeat - activeIssues[call.key].startedAt > 10 * 60 * 1000
  /\ notified[call.key] = 1

\* C26: a registered unit of acme/app#1 whose container has exited or died
\* is eventually in status error, unless the unit has left the registry or
\* been replaced by one with another container.  The unit is one started at
\* time 0, so that the clock passes its grace period.
C26_CrashedUnitForcedToError ==
  \A c \in ContainerIds :
    ( /\ << "acme", "app", 1 >> \in DOMAIN activeIssues
      /\ activeIssues[<< "acme", "app", 1 >>].startedAt = 0
      /\ activeIssues[<< "acme", "app", 1 >>].containerId = c
      /\ docker[c] \in { "exited", "dead" } )
    ~> ( \/ << "acme", "app", 1 >> \notin DOMAIN activeIssues
         \/ activeIssues[<< "acme", "app", 1 >>].containerId # c
         \/ activeIssues[<< "acme", "app", 1 >>].status = "error" )

\* C27: when the health loop checks a stale unit of its list and the status
\* check gives unknown (docker could not be asked, or has no such
\* container), the step changes no unit of the registry, so the unit keeps
\* its status and its error message, and posts no notification.
C27_UnknownStatusChangesNothing ==
  [][ \A e \in sweepTodo :
        ( /\ sweepTodo' = sweepTodo \ { e }
          /\ call'.op = "healthCheck"
          /\ call'.key = e.key
          /\ call'.containerId = e.containerId
          /\ call'.status = "unknown" )
          => /\ activeIssues' = activeIssues
             /\ notified' = notified ]_vars

\* The stale unit of acme/app#1 has been checked while its container was
\* running and docker did not answer: the unit is still registered, not in
\* error, and nothing has been posted for it.
C27_Witness ==
  /\ call.op = "healthCheck"
  /\ call.status = "unknown"
  /\ call.key \in DOMAIN activeIssues
  /\ call.key \in getStaleIssues(activeIssues, now)
  /\ docker[call.containerId] = "running"
  /\ activeIssues[call.key].status # "error"
  /\ notified[call.key] = 0

C29_ErrorCarriesCause ==
  \A k \in DOMAIN activeIssues :
    activeIssues[k].status = "error" => activeIssues[k].error # NoError

\* A unit set to error by the health loop carries the loop's message with
\* the container status it found.
C29_Witness ==
  \E k \in DOMAIN activeIssues :
    /\ activeIssues[k].status = "error"
    /\ activeIssues[k].error \in
         { "Container terminated unexpectedly (status: exited)",
           "Container terminated unexpectedly (status: dead)" }

(***************************************************************************)
(* Properties: stopping                                                    *)
(***************************************************************************)
\* C30: stop() takes the container ids of all units of the registry; once
\* stop() has been called no step is the health interval, the cleanup
\* interval or the poll interval firing; and when stop() has returned,
\* removeContainer has been called for every container id it took, whether
\* or not a call for another one failed.
C30_StopCancelsTimersAndRemovesAll ==
  [][ /\ (stopState.pc = "running" /\ stopState'.pc # "running")
           => stopState'.snapshot = getAllActiveHandles(activeIssues)
      /\ stopState.pc # "running"
           => /\ ~ \E sweep \in 1..MaxSweeps : HealthSweepStarts(sweep)
              /\ ~ CleanupStoppedContainers
              /\ ~ \E slot \in Slots : PollStarts(slot)
      /\ stopState'.pc = "stopped"
           => stopState'.snapshot \subseteq stopState'.requested ]_vars

\* stop() has returned with two units in the registry: the removal of one
\* container failed after the container was stopped, which leaves it exited
\* with no cleanup interval to come, and the other container was removed.
C30_Witness ==
  /\ stopState.pc = "stopped"
  /\ timers = {}
  /\ Cardinality(stopState.snapshot) = 2
  /\ stopState.requested = stopState.snapshot
  /\ \E c1, c2 \in stopState.snapshot :
       /\ c1 \in stopState.failed
       /\ docker[c1] = "exited"
       /\ c2 \notin stopState.failed
       /\ docker[c2] = "removed"

(***************************************************************************)
(* Properties: overlapping poll cycles                                     *)
(***************************************************************************)
\* C31: while a cycle is between its read of an issue's comment watermark
\* (it has requested the issue's comments, or awaits a handler for one of
\* them) and its write of it, no step of another cycle changes that entry of
\* the repository's Map.
C31_NoInterleavedWatermarkWrite ==
  [][ \A s \in Slots :
        ( /\ cycles[s].pc \in { "commentFetch", "commentHandler" }
          /\ ~Acting(s) )
          => MapGet(heap'[cycles[s].mapRef], cycles[s].item)
               = MapGet(heap[cycles[s].mapRef], cycles[s].item) ]_vars

(***************************************************************************)
(* Properties: containers and the registry                                 *)
(***************************************************************************)
\* C32: a removeContainer call for a container docker no longer has (here
\* one of stop()'s calls, for a unit whose container the cleanup sweep has
\* removed) does not fail.
C32_RemovalOfAbsentContainerSucceeds ==
  [][ \A c \in ContainerIds :
        ( /\ c \in stopState.todo
          /\ c \in stopState'.requested
          /\ docker[c] = "removed" )
          => c \notin stopState'.failed ]_vars

C39_NothingStartedAfterStop ==
  [][ stopState.pc = "stopping"
        => /\ \A c \in ContainerIds :
                docker'[c] \in { "created", "running" } => docker'[c] = docker[c]
           /\ DOMAIN activeIssues' \subseteq DOMAIN activeIssues
           /\ \A k \in DOMAIN activeIssues' :
                activeIssues'[k].containerId = activeIssues[k].containerId ]_vars

\* C38: over all health sweeps, successive or overlapping, at most one crash
\* notification is posted for a unit.
C38_OneCrashNoticePerUnit ==
  \A k \in IssueKeys : notified[k] <= 1

\* C37: in polling mode, with no activity of a person on an issue after it
\* was opened, the issue causes at most one trigger event and receives at
\* most one reply, however many cycles run.
C37_OwnRepliesTriggerNothing ==
  \A n \in PolledIssues : issueLog.events[n] <= 1 /\ issueLog.replies[n] <= 1

\* C36: a comment event of the webhook path starts work on a repository only
\* if the repository is configured and enabled and the comment contains that
\* repository's own trigger phrase, in any case of letters.
C36_TriggerNeedsOwnPhrase ==
  [][ call'.op = "onIssueTriggered"
        => \E i \in getRepoConfig(call'.key[1], call'.key[2]) :
             includes(toLowerCase(call'.body),
                      toLowerCase(ConfigRepos[i].triggerComment)) ]_vars

\* C35: a container that was started successfully and has not been removed
\* is the container of a registered unit as soon as the trigger handler that
\* started it has returned.
C35_RunningContainerIsReferenced ==
  \A c \in ContainerIds :
    ( /\ docker[c] \in { "running", "exited", "dead" }
      /\ \A h \in BagToSet(handlers) : h.containerId # c )
      => \E k \in DOMAIN activeIssues : activeIssues[k].containerId = c

(***************************************************************************)
(* Properties: the workload                                                *)
(***************************************************************************)
\* C34: the statuses a workload reports follow the lifecycle: the first is
\* starting, and each later one equals the one before it or follows it on an
\* edge of the lifecycle (the chain from starting to awaiting_review,
\* awaiting_review and iterating in turn, done or error from any status that
\* is not terminal); after done or error no other status is reported.
C34_ReportedStatusesFollowLifecycle ==
  [][ agent'.status # agent.status
        => IF agent.status = ""
             THEN agent'.status = "starting"
             ELSE /\ AllowedTransition(agent.status, agent'.status)
                  /\ agent'.status # "aborted" ]_vars

\* The workload has ended after two feedback iterations and its last report
\* was done.
C34_Witness ==
  /\ agent.pc = "exited"
  /\ agent.status = "done"
  /\ agent.iterations >= 2

\* C40: no CHANGES_REQUESTED review is addressed by more than one pushed
\* feedback iteration.
C40_EachReviewAddressedOnce ==
  \A id \in ReviewIds : agent.addressed[id] <= 1
====
